---- MODULE Spec2Model ----
(***************************************************************************)
(* A model of the SQL agent pipeline: the Query route (route.ts POST), the *)
(* agent's tool-calling loop and response parser (agent.ts,                *)
(* createQueryAgent.query), the SQL safety validator (agent.ts,            *)
(* validateSqlQuery), the schema materializer (schema.ts, schemaToFiles)   *)
(* and the Schema fetch route (schema route.ts POST, fetchSchemaViaRest).  *)
(*                                                                         *)
(* JavaScript strings are modelled as sequences of one-character strings,  *)
(* so that trimming, case folding, prefix tests, substring tests and the   *)
(* regular expressions of the source are computed character by character.  *)
(***************************************************************************)
EXTENDS Integers, Sequences, FiniteSets, TLC

VARIABLES
    vsql,           \* validateSqlQuery: the argument sql
    vres,           \* validateSqlQuery: <<>> before the call, <<result>> after
    pc,             \* POST /api/query: position of the handler
    request,        \* POST: the parsed body {question, credentials, schema}
    stepCount,      \* generateText: result.steps.length (provider turns so far)
    calls,          \* generateText: the toolCalls of result.steps, in order
    lastCalls,      \* generateText: the number of tool calls of the last turn
    text,           \* generateText: result.text
    provided,       \* history: the text the provider sent in its latest turn
    result,         \* agent.query: <<>> or <<[explanation, sql, steps]>>
    validated,      \* history: the arguments validateSqlQuery was called with
    validation,     \* POST: <<>> or <<the value of validation>>
    rpcQueries,     \* history: the query_text of every execute_query call
    response,       \* POST: <<>> or <<[status, body]>>
    rpcResult,      \* POST: <<>> or <<how the awaited rpc call settled>>
    sandbox,        \* createBashTool: <<>> or <<the files the tools work on>>
    schema,         \* schemaToFiles: the argument schema
    files,          \* schemaToFiles: <<>> before the call, <<files>> after
    again,          \* schemaToFiles: <<>> or <<files of a second call>>
    fetchRequest,   \* POST /api/schema: the body of the request
    fetchPc,        \* POST /api/schema: position of the handler
    fetchCalls,     \* history: the arguments of every fetchSchemaViaRest call
    fetchResponse,  \* POST /api/schema: <<>> or <<[status, body]>>
    parked,         \* POST /api/query: <<>> or <<the locals of a suspended call>>
    conversations,  \* QueryInterface: the state conversations
    activeConversationId,   \* QueryInterface: the state, 0 for null
    input,          \* QueryInterface: the state input
    loading,        \* QueryInterface: the state loading
    pending,        \* handleSubmit: <<>> or <<the locals of the awaiting call>>
    now,            \* Date.now()
    ignored         \* history: the submissions handleSubmit returned from at once

vars == << vsql, vres, pc, request, stepCount, calls, lastCalls, text,
           provided, result, validated, validation, rpcQueries, response,
           rpcResult, sandbox, schema, files, again, fetchRequest, fetchPc,
           fetchCalls, fetchResponse, parked, conversations,
           activeConversationId, input, loading, pending, now, ignored >>

materializerVars == << schema, files, again >>
fetchVars == << fetchRequest, fetchPc, fetchCalls, fetchResponse >>
chatVars == << conversations, activeConversationId, input, loading, pending,
              now, ignored >>

(***************************************************************************)
(* Characters and the string primitives of JavaScript used by the source.  *)
(***************************************************************************)
LowerCase == <<"a", "b", "c", "d", "e", "f", "g", "h", "i", "j", "k", "l", "m",
               "n", "o", "p", "q", "r", "s", "t", "u", "v", "w", "x", "y", "z">>

UpperCase == <<"A", "B", "C", "D", "E", "F", "G", "H", "I", "J", "K", "L", "M",
               "N", "O", "P", "Q", "R", "S", "T", "U", "V", "W", "X", "Y", "Z">>

Digits == {"0", "1", "2", "3", "4", "5", "6", "7", "8", "9"}

Range(f) == {f[i] : i \in DOMAIN f}

\* White space removed by String.prototype.trim and matched by \s.
WhiteSpace == {" ", "\n", "\t", "\r"}

\* \w of a JavaScript regular expression: [A-Za-z0-9_].
IsWordChar(c) == c \in Range(LowerCase) \cup Range(UpperCase) \cup Digits \cup {"_"}

UpperChar(c) ==
    IF c \in Range(LowerCase)
    THEN UpperCase[CHOOSE i \in DOMAIN LowerCase : LowerCase[i] = c]
    ELSE c

\* String.prototype.toUpperCase
ToUpperCase(s) == [i \in 1..Len(s) |-> UpperChar(s[i])]

\* String.prototype.trim
Trim(s) ==
    LET keep == {i \in 1..Len(s) : s[i] \notin WhiteSpace}
    IN  IF keep = {} THEN << >>
        ELSE LET lo == CHOOSE i \in keep : \A j \in keep : i <= j
                 hi == CHOOSE i \in keep : \A j \in keep : j <= i
             IN  SubSeq(s, lo, hi)

\* s has p at (1-based) position i.
HasAt(s, p, i) ==
    /\ i >= 1
    /\ i + Len(p) - 1 <= Len(s)
    /\ \A k \in 1..Len(p) : s[i + k - 1] = p[k]

\* String.prototype.startsWith
StartsWith(s, p) == HasAt(s, p, 1)

\* String.prototype.includes
Includes(s, p) == \E i \in 1..(Len(s) + 1) : HasAt(s, p, i)

\* String.prototype.indexOf from position from, 1-based; 0 when absent.
IndexOf(s, p, from) ==
    LET hits == {i \in from..(Len(s) + 1) : HasAt(s, p, i)}
    IN  IF hits = {} THEN 0 ELSE CHOOSE i \in hits : \A j \in hits : i <= j

\* The assertion \b at the gap before position i (i in 1..Len(s)+1).
\* \b at the place before s[i]   (a mutant matches at every place)
AnyBoundary(s, i) == TRUE
WordBoundary(s, i) ==
    LET before == i > 1 /\ IsWordChar(s[i - 1])
        after  == i <= Len(s) /\ IsWordChar(s[i])
    IN  before # after

\* new RegExp('\\b' + keyword + '\\b', 'i').test(s)   (a mutant drops the two \b)
KeywordSubstringTest(keyword, s) == Includes(ToUpperCase(s), ToUpperCase(keyword))
KeywordRegexTest(keyword, s) ==
    \E i \in 1..Len(s) :
        /\ WordBoundary(s, i)
        /\ i + Len(keyword) - 1 <= Len(s)
        /\ \A k \in 1..Len(keyword) : UpperChar(s[i + k - 1]) = UpperChar(keyword[k])
        /\ WordBoundary(s, i + Len(keyword))

\* s.replace(/q[^q]*q/g, '') for a quote character q: leftmost matches, one
\* after the other, never overlapping.
RECURSIVE ReplaceQuoted(_, _)
ReplaceQuoted(s, q) ==
    LET i == IndexOf(s, <<q>>, 1)
    IN  IF i = 0 THEN s
        ELSE LET j == IndexOf(s, <<q>>, i + 1)
             IN  IF j = 0 THEN s
                 ELSE SubSeq(s, 1, i - 1) \o ReplaceQuoted(SubSeq(s, j + 1, Len(s)), q)

(***************************************************************************)
(* validateSqlQuery (agent.ts)                                             *)
(***************************************************************************)
SelectWord == <<"S", "E", "L", "E", "C", "T">>
WithWord   == <<"W", "I", "T", "H">>

dangerousKeywords ==
  << [name |-> "INSERT", chars |-> <<"I", "N", "S", "E", "R", "T">>],
     [name |-> "UPDATE", chars |-> <<"U", "P", "D", "A", "T", "E">>],
     [name |-> "DELETE", chars |-> <<"D", "E", "L", "E", "T", "E">>],
     [name |-> "DROP", chars |-> <<"D", "R", "O", "P">>],
     [name |-> "TRUNCATE", chars |-> <<"T", "R", "U", "N", "C", "A", "T", "E">>],
     [name |-> "ALTER", chars |-> <<"A", "L", "T", "E", "R">>],
     [name |-> "CREATE", chars |-> <<"C", "R", "E", "A", "T", "E">>],
     [name |-> "GRANT", chars |-> <<"G", "R", "A", "N", "T">>],
     [name |-> "REVOKE", chars |-> <<"R", "E", "V", "O", "K", "E">>],
     [name |-> "EXECUTE", chars |-> <<"E", "X", "E", "C", "U", "T", "E">>],
     [name |-> "EXEC", chars |-> <<"E", "X", "E", "C">>],
     [name |-> "CALL", chars |-> <<"C", "A", "L", "L">>],
     [name |-> "SET", chars |-> <<"S", "E", "T">>],
     [name |-> "COPY", chars |-> <<"C", "O", "P", "Y">>],
     [name |-> "LOAD", chars |-> <<"L", "O", "A", "D">>],
     [name |-> "VACUUM", chars |-> <<"V", "A", "C", "U", "U", "M">>],
     [name |-> "REINDEX", chars |-> <<"R", "E", "I", "N", "D", "E", "X">>],
     [name |-> "CLUSTER", chars |-> <<"C", "L", "U", "S", "T", "E", "R">>] >>

StartError == "Only SELECT queries are allowed. Query must start with SELECT or WITH."
KeywordError(name) ==
    "Query contains forbidden keyword: " \o name \o ". Only SELECT queries are allowed."
StatementsError == "Multiple SQL statements are not allowed."
CommentError == "SQL comments are not allowed."

\* return { valid: false, error }   (a mutant forgets the reason)
InvalidWithoutReason(error) == [valid |-> FALSE]
Invalid(error) == [valid |-> FALSE, error |-> error]

\* return { valid: true }
Valid == [valid |-> TRUE]

\* const trimmed = sql.trim().toUpperCase()
Normalize(sql) == ToUpperCase(Trim(sql))

\* trimmed.startsWith('SELECT') || trimmed.startsWith('WITH')   (a mutant
\* lets every query through the first rule)
StartsAnyhow(trimmed) == TRUE
StartsWithSelectOrWith(trimmed) ==
    StartsWith(trimmed, SelectWord) \/ StartsWith(trimmed, WithWord)

\* The for loop over dangerousKeywords: the index of the first keyword of
\* the list whose regular expression matches, 0 when the loop falls through.
LastDangerousKeyword(trimmed) ==
    LET hits == {k \in DOMAIN dangerousKeywords :
                    KeywordRegexTest(dangerousKeywords[k].chars, trimmed)}
    IN  IF hits = {} THEN 0 ELSE CHOOSE k \in hits : \A h \in hits : k >= h
FirstDangerousKeyword(trimmed) ==
    LET hits == {k \in DOMAIN dangerousKeywords :
                    KeywordRegexTest(dangerousKeywords[k].chars, trimmed)}
    IN  IF hits = {} THEN 0 ELSE CHOOSE k \in hits : \A h \in hits : k <= h

\* const withoutStrings = trimmed.replace(/'[^']*'/g, '').replace(/"[^"]*"/g, '')
\* (a mutant strips the double-quoted spans only)
WithoutDoubleQuotedOnly(trimmed) == ReplaceQuoted(trimmed, "\"")
WithoutStrings(trimmed) == ReplaceQuoted(ReplaceQuoted(trimmed, "'"), "\"")

\* withoutStrings.includes(';')   (a mutant overlooks a semicolon at the end)
HasInnerSemicolon(trimmed) ==
    \E i \in 1..(Len(WithoutStrings(trimmed)) - 1) : WithoutStrings(trimmed)[i] = ";"
HasMultipleStatements(trimmed) == Includes(WithoutStrings(trimmed), <<";">>)

\* trimmed.includes('--') || trimmed.includes('/*')   (a mutant looks for
\* the line comment only)
HasLineCommentOnly(trimmed) == Includes(trimmed, <<"-", "-">>)
HasComment(trimmed) ==
    Includes(trimmed, <<"-", "-">>) \/ Includes(trimmed, <<"/", "*">>)

\* A mutant that tests for comments before it tests for several statements.
ValidateCommentsFirst(sql) ==
    LET trimmed == Normalize(sql)
        keyword == FirstDangerousKeyword(trimmed)
    IN  IF ~StartsWithSelectOrWith(trimmed) THEN Invalid(StartError)
        ELSE IF keyword # 0 THEN Invalid(KeywordError(dangerousKeywords[keyword].name))
        ELSE IF HasComment(trimmed) THEN Invalid(CommentError)
        ELSE IF HasMultipleStatements(trimmed) THEN Invalid(StatementsError)
        ELSE Valid

validateSqlQuery(sql) ==
    LET trimmed == Normalize(sql)
        keyword == FirstDangerousKeyword(trimmed)
    IN  IF ~StartsWithSelectOrWith(trimmed) THEN Invalid(StartError)
        ELSE IF keyword # 0 THEN Invalid(KeywordError(dangerousKeywords[keyword].name))
        ELSE IF HasMultipleStatements(trimmed) THEN Invalid(StatementsError)
        ELSE IF HasComment(trimmed) THEN Invalid(CommentError)
        ELSE Valid

(***************************************************************************)
(* Inputs of the validator: a head followed by at most MaxBodyTokens       *)
(* tokens.                                                                 *)
(***************************************************************************)
MaxBodyTokens == 3

SqlHeads == { << >>, SelectWord, WithWord, <<"\n", "s", "e", "l", "e", "c", "t">> }

SqlTokens == { <<" ">>, <<";">>, <<"'">>, <<"\"">>, <<"-", "-">>, <<"/", "*">>,
               <<"x">>, <<"D", "R", "O", "P">>, <<"s", "e", "t">> }

RECURSIVE Flatten(_)
Flatten(ss) == IF ss = << >> THEN << >> ELSE Head(ss) \o Flatten(Tail(ss))

SqlBodies ==
    UNION { {Flatten(b) : b \in [1..n -> SqlTokens]} : n \in 0..MaxBodyTokens }

\* The inputs the specification names, and two that show the naive removal
\* of quoted spans.
ExampleAccepted ==
    <<"S", "E", "L", "E", "C", "T", " ", "i", "d", ",", " ", "n", "a", "m", "e", " ",
      "F", "R", "O", "M", " ", "u", "s", "e", "r", "s", " ", "L", "I", "M", "I", "T",
      " ", "1", "0">>
ExampleDrop ==
    <<"D", "R", "O", "P", " ", "T", "A", "B", "L", "E", " ", "u", "s", "e", "r", "s", ";">>
ExampleTwoStatements ==
    <<"S", "E", "L", "E", "C", "T", " ", "1", ";", " ",
      "S", "E", "L", "E", "C", "T", " ", "2", ";">>
ExampleLiteral == <<"S", "E", "L", "E", "C", "T", " ", "'", "a", ";", "b", "'">>
ExampleHiddenSemicolon ==
    <<"S", "E", "L", "E", "C", "T", " ", "\"", "a", "'", "b", "\"", ";", " ",
      "\"", "c", "'", "d", "\"">>
ExampleSplitLiteral ==
    <<"S", "E", "L", "E", "C", "T", " ", "\"", "x", "'", "\"", ",", " ",
      "'", "a", ";", "b", "'">>

\* Identifiers that hold a keyword, a keyword inside a literal, and two
\* keywords of which the later one comes first in the list.
ExampleIdentifiers ==
    <<"S", "E", "L", "E", "C", "T", " ", "c", "r", "e", "a", "t", "e", "d", "_", "a", "t", ",", " ", "u", "p", "d", "a", "t", "e", "_", "t", "i", "m", "e", ",", " ", "e", "x", "e", "c", "2", " ", "F", "R", "O", "M", " ", "s", "e", "t", "t", "i", "n", "g", "s">>
ExampleKeywordInLiteral ==
    <<"s", "e", "l", "e", "c", "t", " ", "'", "D", "r", "o", "p", "'", " ", "A", "S", " ", "x">>
ExampleTwoKeywords ==
    <<"S", "E", "L", "E", "C", "T", " ", "s", "e", "t", ",", " ", "d", "r", "o", "p">>

SqlExamples == { ExampleAccepted, ExampleDrop, ExampleTwoStatements, ExampleLiteral,
                 ExampleHiddenSemicolon, ExampleSplitLiteral, ExampleIdentifiers,
                 ExampleKeywordInLiteral, ExampleTwoKeywords }

SqlInputs == { h \o b : h \in SqlHeads, b \in SqlBodies } \cup SqlExamples
(***************************************************************************)
(* schemaToFiles (schema.ts). A document is the sequence of its lines: its *)
(* text is every line followed by "\n". files is a function from the keys  *)
(* of the object to the documents.                                         *)
(***************************************************************************)
\* The arrow character U+2192 of the foreign key lines.
Arrow == "->"

\* files[key] = content
Put(f, key, content) ==
    [k \in DOMAIN f \cup {key} |-> IF k = key THEN content ELSE f[k]]

\* The empty object {}.
NoFiles == [k \in {} |-> << >>]

\* let overview = ...; for (const table of schema.tables) overview += ...
OverviewDocument(s) ==
    << "# Database Schema Overview", "", "## Tables", "" >> \o
    [i \in 1..Len(s.tables) |->
        "- " \o s.tables[i].table_name \o " (" \o s.tables[i].table_type \o ")"]

\* schema.columns.filter(c => c.table_name === table.table_name)
TableColumns(s, table) ==
    SelectSeq(s.columns, LAMBDA c : c.table_name = table.table_name)

\* schema.foreignKeys.filter(fk => fk.table_name === table.table_name)
TableFKs(s, table) ==
    SelectSeq(s.foreignKeys, LAMBDA fk : fk.table_name = table.table_name)

\* One row of the column table. column_default is << >> for null.
ColumnRow(col) ==
    LET nullable == IF col.is_nullable = "YES" THEN "Yes" ELSE "No"
        defaultVal == IF col.column_default # << >> /\ col.column_default[1] # ""
                      THEN col.column_default[1] ELSE "-"
    IN  "| " \o col.column_name \o " | " \o col.data_type \o " | " \o nullable \o
        " | " \o defaultVal \o " |"

ColumnTableHeader ==
    << "## Columns", "",
       "| Column | Type | Nullable | Default |",
       "|--------|------|----------|--------|" >>

\* The body of the second loop: the content of the file of one table.
TableDocument(s, table) ==
    LET tableColumns == TableColumns(s, table)
        tableFKs == TableFKs(s, table)
    IN  << "# Table: " \o table.table_name, "",
           "Type: " \o table.table_type,
           "Schema: " \o table.table_schema, "" >> \o
        ColumnTableHeader \o
        [i \in 1..Len(tableColumns) |-> ColumnRow(tableColumns[i])] \o
        (IF Len(tableFKs) > 0
         THEN << "", "## Foreign Keys", "" >> \o
              [i \in 1..Len(tableFKs) |->
                  "- " \o tableFKs[i].column_name \o " " \o Arrow \o " " \o
                  tableFKs[i].foreign_table_name \o "." \o
                  tableFKs[i].foreign_column_name]
         ELSE << >>)

TablePath(name) == "schema/tables/" \o name \o ".md"

\* A copy of the loop below that writes no file for a table without columns.
RECURSIVE PutDocumentsOfTablesWithColumns(_, _, _)
PutDocumentsOfTablesWithColumns(f, s, i) ==
    IF i > Len(s.tables) THEN f
    ELSE PutDocumentsOfTablesWithColumns(
             IF Len(TableColumns(s, s.tables[i])) = 0 THEN f
             ELSE Put(f, TablePath(s.tables[i].table_name),
                      TableDocument(s, s.tables[i])),
             s, i + 1)

\* for (const table of schema.tables) files[path of table] = content: the
\* tables from the i-th on, each written over what the key held before.
RECURSIVE PutTableDocuments(_, _, _)
PutTableDocuments(f, s, i) ==
    IF i > Len(s.tables) THEN f
    ELSE PutTableDocuments(
             Put(f, TablePath(s.tables[i].table_name), TableDocument(s, s.tables[i])),
             s, i + 1)

RelationshipLine(fk) ==
    "- " \o fk.table_name \o "." \o fk.column_name \o " " \o Arrow \o " " \o
    fk.foreign_table_name \o "." \o fk.foreign_column_name

\* A copy of the document below that lists the foreign keys of the tables of
\* the schema only.
RelationshipsOfKnownTables(s) ==
    LET known == SelectSeq(s.foreignKeys,
                     LAMBDA fk : \E i \in 1..Len(s.tables) :
                                    s.tables[i].table_name = fk.table_name)
    IN  << "# Table Relationships", "", "## Foreign Key Relationships", "" >> \o
        [i \in 1..Len(known) |-> RelationshipLine(known[i])]

\* let relationships = ...; for (const fk of schema.foreignKeys) ...
RelationshipsDocument(s) ==
    << "# Table Relationships", "", "## Foreign Key Relationships", "" >> \o
    [i \in 1..Len(s.foreignKeys) |-> RelationshipLine(s.foreignKeys[i])]

\* summary += "### name\n"; summary += tableColumns.map(...).join("\n");
\* summary += "\n\n": with no columns the join is the empty text, which
\* leaves two empty lines after the heading.
SummarySection(s, table) ==
    LET tableColumns == TableColumns(s, table)
    IN  << "### " \o table.table_name >> \o
        (IF Len(tableColumns) = 0 THEN << "", "" >>
         ELSE [i \in 1..Len(tableColumns) |->
                  "- " \o tableColumns[i].column_name \o " (" \o
                  tableColumns[i].data_type \o ")"] \o << "" >>)

RECURSIVE SummarySections(_, _)
SummarySections(s, i) ==
    IF i > Len(s.tables) THEN << >>
    ELSE SummarySection(s, s.tables[i]) \o SummarySections(s, i + 1)

SummaryDocument(s) ==
    << "# Quick Reference", "", "## All Tables and Columns", "" >> \o
    SummarySections(s, 1)

\* A copy of schemaToFiles whose overview is kept between calls, so that a
\* later call appends to the text of the call before it.
SchemaToFilesSharedOverview(s) ==
    LET overview ==
            Put(NoFiles, "schema/overview.md",
                IF files = << >> THEN OverviewDocument(s)
                ELSE files[1]["schema/overview.md"] \o OverviewDocument(s))
        tables == PutTableDocuments(overview, s, 1)
        relationships ==
            IF Len(s.foreignKeys) > 0
            THEN Put(tables, "schema/relationships.md", RelationshipsDocument(s))
            ELSE tables
    IN  Put(relationships, "schema/summary.md", SummaryDocument(s))

schemaToFiles(s) ==
    LET overview == Put(NoFiles, "schema/overview.md", OverviewDocument(s))
        tables == PutTableDocuments(overview, s, 1)
        relationships ==
            IF Len(s.foreignKeys) > 0
            THEN Put(tables, "schema/relationships.md", RelationshipsDocument(s))
            ELSE tables
    IN  Put(relationships, "schema/summary.md", SummaryDocument(s))

(***************************************************************************)
(* The schemas schemaToFiles is called on.                                 *)
(***************************************************************************)
\* The most tables, the most columns and the most foreign keys of a schema.
MaxRows == 2

TableChoices ==
    { [table_schema |-> "public", table_name |-> "orders", table_type |-> "BASE TABLE"],
      [table_schema |-> "public", table_name |-> "users", table_type |-> "VIEW"],
      [table_schema |-> "public", table_name |-> "orders", table_type |-> "VIEW"] }

\* A column of orders, a column of users, and a column of a table that no
\* entry of tables names.
ColumnChoices ==
    { [table_schema |-> "public", table_name |-> "orders", column_name |-> "id",
       data_type |-> "integer", is_nullable |-> "NO", column_default |-> << >>],
      [table_schema |-> "public", table_name |-> "users", column_name |-> "total",
       data_type |-> "numeric", is_nullable |-> "YES", column_default |-> << "0" >>],
      [table_schema |-> "public", table_name |-> "ghost", column_name |-> "id",
       data_type |-> "uuid", is_nullable |-> "YES", column_default |-> << >>] }

\* A foreign key of orders and a foreign key whose tables do not exist.
ForeignKeyChoices ==
    { [table_name |-> "orders", column_name |-> "user_id",
       foreign_table_name |-> "users", foreign_column_name |-> "id"],
      [table_name |-> "ghost", column_name |-> "owner",
       foreign_table_name |-> "nowhere", foreign_column_name |-> "id"] }

SeqsUpTo(S, n) == UNION { [1..k -> S] : k \in 0..n }

Schemas ==
    [tables : SeqsUpTo(TableChoices, MaxRows),
     columns : SeqsUpTo(ColumnChoices, MaxRows),
     foreignKeys : SeqsUpTo(ForeignKeyChoices, MaxRows)]

EmptySchema == [tables |-> << >>, columns |-> << >>, foreignKeys |-> << >>]

\* orders(id int, total numeric)
OrdersSchema ==
    [tables |-> << [table_schema |-> "public", table_name |-> "orders",
                    table_type |-> "BASE TABLE"] >>,
     columns |-> << [table_schema |-> "public", table_name |-> "orders",
                     column_name |-> "id", data_type |-> "int",
                     is_nullable |-> "NO", column_default |-> << >>],
                    [table_schema |-> "public", table_name |-> "orders",
                     column_name |-> "total", data_type |-> "numeric",
                     is_nullable |-> "YES", column_default |-> << >>] >>,
     foreignKeys |-> << >>]

MaterializerIdle ==
    /\ schema = EmptySchema
    /\ files = << >>
    /\ again = << >>

(***************************************************************************)
(* The validator on its own: one call of validateSqlQuery on an input.     *)
(***************************************************************************)
\* The pipeline's variables while no request is being handled.
NoRequest == [json |-> FALSE, isNull |-> FALSE, question |-> FALSE,
              credentials |-> FALSE, schema |-> FALSE, llmProvider |-> "openai",
              supabaseUrl |-> FALSE]

PipelineIdle ==
    /\ pc = "idle"
    /\ request = NoRequest
    /\ stepCount = 0
    /\ calls = << >>
    /\ lastCalls = 0
    /\ text = << >>
    /\ provided = << >>
    /\ result = << >>
    /\ validated = << >>
    /\ validation = << >>
    /\ rpcQueries = << >>
    /\ response = << >>
    /\ rpcResult = << >>
    /\ sandbox = << >>

pipelineVars == << pc, request, stepCount, calls, lastCalls, text, provided,
                   result, validated, validation, rpcQueries, response,
                   rpcResult, sandbox >>

\* The Schema fetch route while no request is being handled.
NoFetchRequest == [json |-> FALSE, isNull |-> FALSE, supabaseUrl |-> FALSE,
                   supabaseAnonKey |-> FALSE]

FetchIdle ==
    /\ fetchPc = "idle"
    /\ fetchRequest = NoFetchRequest
    /\ fetchCalls = << >>
    /\ fetchResponse = << >>

\* The component as it is mounted: the initial values of useState.
ChatIdle ==
    /\ conversations = << >>
    /\ activeConversationId = 0
    /\ input = << >>
    /\ loading = FALSE
    /\ pending = << >>
    /\ now = 0
    /\ ignored = 0

ValidateInit ==
    /\ vsql \in SqlInputs
    /\ vres = << >>
    /\ PipelineIdle
    /\ MaterializerIdle
    /\ FetchIdle
    /\ parked = << >>
    /\ ChatIdle

\* const validation = validateSqlQuery(sql)
ValidateCall ==
    /\ vres = << >>
    /\ vres' = << validateSqlQuery(vsql) >>
    /\ UNCHANGED << vsql, pipelineVars, materializerVars, fetchVars,
                    parked, chatVars >>

ValidateNext == ValidateCall

SpecValidate == ValidateInit /\ [][ValidateNext]_vars

(***************************************************************************)
(* The materializer on its own: schemaToFiles is called on a schema, and   *)
(* called once more on the same schema.                                    *)
(***************************************************************************)
FilesInit ==
    /\ schema \in Schemas
    /\ files = << >>
    /\ again = << >>
    /\ vsql = << >>
    /\ vres = << >>
    /\ PipelineIdle
    /\ FetchIdle
    /\ parked = << >>
    /\ ChatIdle

\* const schemaFiles = schemaToFiles(schema)
Materialize ==
    /\ files = << >>
    /\ files' = << schemaToFiles(schema) >>
    /\ UNCHANGED << vsql, vres, pipelineVars, schema, again, fetchVars,
                    parked, chatVars >>

\* A second call on the same value.
MaterializeAgain ==
    /\ files # << >>
    /\ again = << >>
    /\ again' = << schemaToFiles(schema) >>
    /\ UNCHANGED << vsql, vres, pipelineVars, schema, files, fetchVars,
                    parked, chatVars >>

FilesNext == Materialize \/ MaterializeAgain

SpecFiles == FilesInit /\ [][FilesNext]_vars
(***************************************************************************)
(* The response parser of createQueryAgent.query (agent.ts).               *)
(***************************************************************************)
\* The backtick character (a TLA+ string cannot hold it).
Tick == "tick"

FenceSqlOpen == <<Tick, Tick, Tick, "s", "q", "l", "\n">>
Fence == <<Tick, Tick, Tick>>
ExplanationMarker ==
    <<"*", "*", "E", "x", "p", "l", "a", "n", "a", "t", "i", "o", "n", ":", "*", "*">>
SqlQueryMarker == <<"*", "*", "S", "Q", "L", " ", "Q", "u", "e", "r", "y", ":">>

\* A copy of the match below that takes any fence for the opening one.
SqlMatchAnyFence(finalResponse) ==
    LET i == IndexOf(finalResponse, Fence, 1)
        j == IF i = 0 THEN 0 ELSE IndexOf(finalResponse, Fence, i + Len(Fence))
    IN  IF j = 0 THEN << >>
        ELSE << SubSeq(finalResponse, i + Len(Fence), j - 1) >>

\* finalResponse.match(/[fence]sql\n([\s\S]*?)[fence]/), where [fence] stands
\* for three backticks: << >> for null, else <<group 1>>. The leftmost
\* opening fence that a closing fence follows is the first opening fence,
\* and the lazy group ends at the first closing fence after it.
SqlMatch(finalResponse) ==
    LET i == IndexOf(finalResponse, FenceSqlOpen, 1)
        j == IF i = 0 THEN 0
             ELSE IndexOf(finalResponse, Fence, i + Len(FenceSqlOpen))
    IN  IF j = 0 THEN << >>
        ELSE << SubSeq(finalResponse, i + Len(FenceSqlOpen), j - 1) >>

\* const sql = sqlMatch ? sqlMatch[1].trim() : ''   (a mutant does not trim)
ParseSqlUntrimmed(finalResponse) ==
    LET sqlMatch == SqlMatch(finalResponse)
    IN  IF sqlMatch # << >> THEN sqlMatch[1] ELSE << >>
ParseSql(finalResponse) ==
    LET sqlMatch == SqlMatch(finalResponse)
    IN  IF sqlMatch # << >> THEN Trim(sqlMatch[1]) ELSE << >>

\* A copy of the match below whose group runs to the end of the text.
ExplanationToEnd(finalResponse) ==
    LET i == IndexOf(finalResponse, ExplanationMarker, 1)
    IN  IF i = 0 THEN << >>
        ELSE << SubSeq(finalResponse, i + Len(ExplanationMarker), Len(finalResponse)) >>

\* finalResponse.match(/\*\*Explanation:\*\*\s*([\s\S]*?)(?=\*\*SQL Query:|$)/)
ExplanationMatch(finalResponse) ==
    LET i == IndexOf(finalResponse, ExplanationMarker, 1)
    IN  IF i = 0 THEN << >>
        ELSE LET after == i + Len(ExplanationMarker)
                 solid == {k \in after..Len(finalResponse) :
                              finalResponse[k] \notin WhiteSpace}
                 from  == IF solid = {} THEN Len(finalResponse) + 1
                          ELSE CHOOSE k \in solid : \A m \in solid : k <= m
                 stop  == IndexOf(finalResponse, SqlQueryMarker, from)
             IN  << SubSeq(finalResponse, from,
                           IF stop = 0 THEN Len(finalResponse) ELSE stop - 1) >>

\* finalResponse.split(fence)[0]
BeforeFirstFence(finalResponse) ==
    LET i == IndexOf(finalResponse, Fence, 1)
    IN  IF i = 0 THEN finalResponse ELSE SubSeq(finalResponse, 1, i - 1)

\* const explanation = explanationMatch ? explanationMatch[1].trim()
\*                                      : finalResponse.split(fence)[0].trim()
ParseExplanation(finalResponse) ==
    LET explanationMatch == ExplanationMatch(finalResponse)
    IN  IF explanationMatch # << >> THEN Trim(explanationMatch[1])
        ELSE Trim(BeforeFirstFence(finalResponse))

(***************************************************************************)
(* The tool-calling loop of generateText under stopWhen: stepCountIs(10),  *)
(* and the step log built from result.steps.                               *)
(***************************************************************************)
StepBudget == 10

\* The most tool calls the provider issues in one turn.
MaxCallsPerTurn == 2

\* The provider's tool calls, in the order it issues them: the k-th call of a
\* request is ToolCall(k).
ToolCallCycle ==
    << [toolName |-> "bash", command |-> "ls schema/", path |-> "",
        content |-> << >>],
       [toolName |-> "readFile", command |-> "", path |-> "schema/overview.md",
        content |-> << >>],
       [toolName |-> "bash", command |-> "", path |-> "", content |-> << >>],
       [toolName |-> "writeFile", command |-> "", path |-> "schema/notes.md",
        content |-> << "orders has no rows" >>] >>

ToolCall(k) == ToolCallCycle[((k - 1) % Len(ToolCallCycle)) + 1]

\* The tools createBashTool returns (bash, readFile, writeFile) are handed to
\* generateText whole. The execution of one tool call on the files: writeFile
\* stores content under path; ls and readFile leave the files as they are.
ExecuteTool(fs, tc) ==
    IF tc.toolName = "writeFile" /\ tc.path # ""
    THEN Put(fs, tc.path, tc.content)
    ELSE fs

RECURSIVE ExecuteTools(_, _)
ExecuteTools(fs, toolCalls) ==
    IF toolCalls = << >> THEN fs
    ELSE ExecuteTools(ExecuteTool(fs, Head(toolCalls)), Tail(toolCalls))

\* The body of the inner for loop: the entries one tool call adds to steps.
StepEntries(tc) ==
    IF tc.toolName = "bash" /\ tc.command # ""
        THEN << "$ " \o tc.command >>
    ELSE IF tc.toolName = "readFile" /\ tc.path # ""
        THEN << "$ cat " \o tc.path >>
    ELSE IF tc.toolName # ""
        THEN << "[" \o tc.toolName \o "] executed" >>
    ELSE << >>

\* const steps = []; for (const step of result.steps)
\*                     for (const toolCall of step.toolCalls) ...
RECURSIVE ExtractSteps(_)
ExtractSteps(toolCalls) ==
    IF toolCalls = << >> THEN << >>
    ELSE StepEntries(Head(toolCalls)) \o ExtractSteps(Tail(toolCalls))

\* stopWhen: stepCountIs(10): after a turn with n tool calls that made the
\* step count count, the loop goes on when there were tool calls and the
\* count is not the budget.   (a mutant stops one step late)
ContinuesOneMore(n, count) == n > 0 /\ count # StepBudget + 1
LoopContinues(n, count) == n > 0 /\ count # StepBudget

\* result.text after a turn that produced turnText: the text of the last
\* step.   (a mutant keeps the text of the first step)
FirstStepText(previous, count, turnText) == IF count = 1 THEN turnText ELSE previous
ResultText(previous, count, turnText) == turnText

(***************************************************************************)
(* The answers of the provider: an optional preamble and an optional       *)
(* fenced block.                                                           *)
(***************************************************************************)
AnswerPreambles ==
    { << >>,
      <<"*", "*", "E", "x", "p", "l", "a", "n", "a", "t", "i", "o", "n", ":", "*", "*",
        " ", "o", "k", "\n", "*", "*", "S", "Q", "L", " ", "Q", "u", "e", "r", "y", ":",
        "*", "*", "\n">>,
      <<"S", "e", "e", ":", " ">> }

AnswerSqlBodies ==
    { <<"S", "E", "L", "E", "C", "T", " ", "1">>,
      <<"S", "E", "L", "E", "C", "T", " ", "1", ";", "\n">>,
      <<"D", "R", "O", "P", " ", "x">>,
      <<" ", "s", "e", "l", "e", "c", "t", " ", "'", "-", "-", "'", "\n">>,
      <<"S", "E", "L", "E", "C", "T", " ", "'", "a", ";", "b", "'", "\n">> }

AnswerBlocks ==
    { FenceSqlOpen \o b \o Fence : b \in AnswerSqlBodies } \cup
    { << >>,
      <<Tick, Tick, Tick, "\n", "S", "E", "L", "E", "C", "T", " ", "1", Tick, Tick, Tick>>,
      <<Tick, Tick, Tick, "S", "Q", "L", "\n", "S", "E", "L", "E", "C", "T", " ", "1",
        Tick, Tick, Tick>>,
      <<Tick, Tick, Tick, "s", "q", "l", "\n", "S", "E", "L", "E", "C", "T", " ", "1">>,
      <<Tick, Tick, Tick, "s", "q", "l", "\n", " ", "\n", Tick, Tick, Tick>>,
      FenceSqlOpen \o <<"S", "E", "L", "E", "C", "T", " ", "2", "\n">> \o Fence \o
          <<"\n">> \o FenceSqlOpen \o <<"D", "R", "O", "P", " ", "x">> \o Fence }

Answers == { p \o b : p \in AnswerPreambles, b \in AnswerBlocks }

\* The texts the provider sends along with tool calls.
ToolTurnTexts ==
    { << >>,
      <<"S", "e", "e", ":", " ">>,
      FenceSqlOpen \o <<"S", "E", "L", "E", "C", "T", " ", "1">> \o Fence,
      FenceSqlOpen \o <<"D", "R", "O", "P", " ", "x">> \o Fence }

(***************************************************************************)
(* POST /api/query (route.ts).                                             *)
(***************************************************************************)
\* The bodies a client may send. json is FALSE for a body request.json()
\* cannot parse; the other fields say whether the value is present (truthy).
\* isNull says that the body parses to null, which has no field.
Requests ==
    { r \in [json : BOOLEAN, isNull : BOOLEAN, question : BOOLEAN,
             credentials : BOOLEAN, schema : BOOLEAN,
             llmProvider : {"openai", "mistral"}, supabaseUrl : BOOLEAN] :
        r.isNull => r.json /\ ~r.question /\ ~r.credentials /\ ~r.schema }

\* !question || !credentials || !schema   (a mutant tests the question only)
MissingQuestionOnly(req) == ~req.question
MissingFields(req) == ~req.question \/ ~req.credentials \/ ~req.schema

\* const { question, credentials, schema } = body, for a body that is null
DestructureNull(property) ==
    "Cannot destructure property '" \o property \o "' of 'body' as it is null."

ExtractionError ==
    "Could not extract SQL from the response. Please try rephrasing your question."

RpcNote(message) ==
    "SQL generated successfully. RPC error: " \o message \o
    ". To execute queries directly, set up an execute_query RPC function in your Supabase project."

\* What the awaited supabase.rpc call may do: resolve with rows, resolve with
\* an error of the database, or throw.
RpcOutcomes ==
    { [throws |-> FALSE, data |-> "rows", error |-> ""],
      [throws |-> FALSE, data |-> "null", error |-> "permission denied"],
      [throws |-> TRUE, data |-> "null", error |-> ""] }

\* NextResponse.json(body, {status})   (a mutant reports success on every
\* path, another leaves the step log out)
RespondAlwaysSuccess(status, body) ==
    << [status |-> status,
        body |-> [f \in DOMAIN body |-> IF f = "success" THEN TRUE ELSE body[f]]] >>
RespondWithoutSteps(status, body) ==
    << [status |-> status, body |-> [f \in DOMAIN body \ {"steps"} |-> body[f]]] >>
Respond(status, body) == << [status |-> status, body |-> body] >>

\* The catch clause of POST.
ServerError(message) == Respond(500, [success |-> FALSE, error |-> message])

\* !result.sql || result.sql.trim() === ''   (a mutant never reports an
\* extraction failure)
ExtractionNeverFails(sql) == FALSE
ExtractionFailed(sql) == sql = << >> \/ Trim(sql) = << >>

\* if (!validation.valid) return ...   (a mutant lets every query pass)
RejectsNothing(v) == FALSE
ValidationRejects(v) == ~v.valid

\* s.replace(/;+$/, '')
RECURSIVE StripTrailingSemicolons(_)
StripTrailingSemicolons(s) ==
    IF s # << >> /\ s[Len(s)] = ";"
    THEN StripTrailingSemicolons(SubSeq(s, 1, Len(s) - 1))
    ELSE s

\* const cleanSql = result.sql.trim().replace(/;+$/, '')   (a mutant cleans
\* the upper-cased text of the validator)
CleanSqlNormalized(sql) == StripTrailingSemicolons(Normalize(sql))
CleanSql(sql) == StripTrailingSemicolons(Trim(sql))

loopVars == << stepCount, calls, lastCalls, text, provided >>
checkVars == << validated, validation, rpcQueries >>

Init ==
    /\ vsql = << >>
    /\ vres = << >>
    /\ PipelineIdle
    /\ MaterializerIdle
    /\ FetchIdle
    /\ parked = << >>
    /\ ChatIdle

\* Lines 11-29: the body is read, the required fields are checked, the schema
\* documents are built and createQueryAgent is awaited.
Receive(req) ==
    /\ pc = "idle"
    /\ fetchPc = "idle"
    /\ request' = req
    /\ IF ~req.json
         THEN /\ response' = ServerError("Unexpected end of JSON input")
              /\ pc' = "done"
              /\ UNCHANGED materializerVars
       ELSE IF req.isNull
         THEN /\ response' = ServerError(DestructureNull("question"))
              /\ pc' = "done"
              /\ UNCHANGED materializerVars
       ELSE IF MissingFields(req)
         THEN /\ response' = Respond(400, [error |-> "Missing question, credentials, or schema"])
              /\ pc' = "done"
              /\ UNCHANGED materializerVars
       ELSE /\ response' = response
            /\ schema' = OrdersSchema
            /\ files' = << schemaToFiles(OrdersSchema) >>
            /\ again' = again
            /\ pc' = "creating"
    /\ UNCHANGED << vsql, vres, loopVars, result, checkVars, rpcResult, sandbox,
                    fetchVars,
                    parked, chatVars >>

\* createQueryAgent after createBashTool resolves with tools over a sandbox
\* holding schemaFiles: createLLMClient throws on an unknown provider;
\* otherwise agent.query calls generateText.
CreateAgent ==
    /\ pc = "creating"
    /\ sandbox' = files
    /\ IF request.llmProvider \notin {"openai", "anthropic", "google"}
         THEN /\ response' = ServerError("Unknown LLM provider: " \o request.llmProvider)
              /\ pc' = "done"
         ELSE /\ response' = response
              /\ pc' = "generating"
    /\ UNCHANGED << vsql, vres, request, loopVars, result, checkVars,
                    rpcResult, materializerVars, fetchVars,
                    parked, chatVars >>

\* One step of generateText: the provider answers with turnText and n tool
\* calls, the tools run, the step is pushed, the stop condition is tested.
ProviderTurn(n, turnText) ==
    /\ pc = "generating"
    /\ stepCount' = stepCount + 1
    /\ calls' = calls \o [k \in 1..n |-> ToolCall(Len(calls) + k)]
    /\ lastCalls' = n
    /\ text' = ResultText(text, stepCount + 1, turnText)
    /\ provided' = turnText
    /\ sandbox' = << ExecuteTools(sandbox[1],
                                  [k \in 1..n |-> ToolCall(Len(calls) + k)]) >>
    /\ pc' = IF LoopContinues(n, stepCount + 1) THEN "generating" ELSE "generated"
    /\ UNCHANGED << vsql, vres, request, result, checkVars, response,
                    rpcResult, materializerVars, fetchVars,
                    parked, chatVars >>

\* The call of the provider fails: generateText rejects, and the rejection
\* reaches the catch clause of POST.
ProviderFails ==
    /\ pc = "generating"
    /\ response' = ServerError("provider request failed")
    /\ pc' = "done"
    /\ UNCHANGED << vsql, vres, request, loopVars, result, checkVars,
                    rpcResult, sandbox, materializerVars, fetchVars,
                    parked, chatVars >>

\* agent.ts lines 104-139: the step log and the parsed answer.
AgentReturns ==
    /\ pc = "generated"
    /\ result' = << [explanation |-> ParseExplanation(text),
                     sql |-> ParseSql(text),
                     steps |-> ExtractSteps(calls)] >>
    /\ pc' = "answered"
    /\ UNCHANGED << vsql, vres, request, loopVars, checkVars, response,
                    rpcResult, sandbox, materializerVars, fetchVars,
                    parked, chatVars >>

\* route.ts lines 34-73: extraction check, validation, client construction
\* and the submission of execute_query.
HandleResult ==
    /\ pc = "answered"
    /\ LET r == result[1]
           v == validateSqlQuery(r.sql)
       IN  IF ExtractionFailed(r.sql)
             THEN /\ response' = Respond(200, [success |-> FALSE,
                                               error |-> ExtractionError,
                                               explanation |-> r.explanation,
                                               steps |-> r.steps])
                  /\ pc' = "done"
                  /\ UNCHANGED checkVars
           ELSE IF ValidationRejects(v)
             THEN /\ validated' = Append(validated, r.sql)
                  /\ validation' = << v >>
                  /\ response' = Respond(200, [success |-> FALSE,
                                               error |-> v.error,
                                               explanation |-> r.explanation,
                                               sql |-> r.sql,
                                               steps |-> r.steps])
                  /\ pc' = "done"
                  /\ UNCHANGED rpcQueries
           ELSE IF ~request.supabaseUrl
             THEN /\ validated' = Append(validated, r.sql)
                  /\ validation' = << v >>
                  /\ response' = ServerError("supabaseUrl is required.")
                  /\ pc' = "done"
                  /\ UNCHANGED rpcQueries
           ELSE /\ validated' = Append(validated, r.sql)
                /\ validation' = << v >>
                /\ rpcQueries' = Append(rpcQueries, CleanSql(r.sql))
                /\ response' = response
                /\ pc' = "executing"
    /\ UNCHANGED << vsql, vres, request, loopVars, result, rpcResult,
                    sandbox, materializerVars, fetchVars,
                    parked, chatVars >>

\* route.ts lines 74-102: the awaited rpc call settles.
RpcSettles(o) ==
    /\ pc = "executing"
    /\ LET r == result[1]
           executeError == IF o.throws THEN "RPC not available" ELSE o.error
       IN  response' =
             IF executeError # ""
             THEN Respond(200, [success |-> TRUE,
                                explanation |-> r.explanation,
                                sql |-> r.sql,
                                steps |-> r.steps,
                                data |-> "null",
                                note |-> RpcNote(executeError)])
             ELSE Respond(200, [success |-> TRUE,
                                explanation |-> r.explanation,
                                sql |-> r.sql,
                                steps |-> r.steps,
                                data |-> o.data])
    /\ rpcResult' = << o >>
    /\ pc' = "done"
    /\ UNCHANGED << vsql, vres, request, loopVars, result, checkVars,
                    sandbox, materializerVars, fetchVars,
                    parked, chatVars >>

\* The awaited call of the provider settles: it resolves with a step, or it
\* rejects.
ProviderSettles ==
    \/ \E n \in 0..MaxCallsPerTurn :
          \E turnText \in (IF n = 0 THEN Answers ELSE ToolTurnTexts) :
              ProviderTurn(n, turnText)
    \/ ProviderFails

(***************************************************************************)
(* POST /api/schema (schema route.ts) and fetchSchemaViaRest (schema.ts).  *)
(***************************************************************************)
FetchRequests ==
    { r \in [json : BOOLEAN, isNull : BOOLEAN, supabaseUrl : BOOLEAN,
             supabaseAnonKey : BOOLEAN] :
        r.isNull => r.json /\ ~r.supabaseUrl /\ ~r.supabaseAnonKey }

\* The documents the introspection endpoint may answer with: definitions is
\* the sequence of the entries of openApiSpec.definitions (<< >> for none),
\* properties the entries of definition.properties; "" is an absent format
\* or type.
OpenApiSpecs ==
    { [definitions |-> << >>],
      [definitions |->
          << [name |-> "orders",
              properties |-> << [name |-> "id", format |-> "integer", type |-> "number"],
                                [name |-> "total", format |-> "", type |-> "number"],
                                [name |-> "note", format |-> "", type |-> ""] >>] >>],
      [definitions |->
          << [name |-> "_migrations",
              properties |-> << [name |-> "id", format |-> "integer", type |-> "number"] >>],
             [name |-> "users", properties |-> << >>] >>] }

\* How the awaited fetch may settle: it rejects, it resolves with a status
\* that is not ok, or it resolves with a document.
FetchOutcomes ==
    { [rejects |-> TRUE, ok |-> FALSE, spec |-> [definitions |-> << >>]],
      [rejects |-> FALSE, ok |-> FALSE, spec |-> [definitions |-> << >>]] } \cup
    { [rejects |-> FALSE, ok |-> TRUE, spec |-> d] : d \in OpenApiSpecs }

\* if (tableName.startsWith('_')) continue
IsInternal(tableName) == tableName \in {"_migrations"}

\* The columns pushed for one definition.
DefinitionColumns(definition) ==
    [i \in 1..Len(definition.properties) |->
        LET columnDef == definition.properties[i]
        IN  [table_schema |-> "public",
             table_name |-> definition.name,
             column_name |-> columnDef.name,
             data_type |-> IF columnDef.format # "" THEN columnDef.format
                           ELSE IF columnDef.type # "" THEN columnDef.type
                           ELSE "unknown",
             is_nullable |-> "YES",
             column_default |-> << >>]]

RECURSIVE ParseDefinitions(_, _)
ParseDefinitions(definitions, acc) ==
    IF definitions = << >> THEN acc
    ELSE LET definition == Head(definitions)
         IN  IF IsInternal(definition.name)
             THEN ParseDefinitions(Tail(definitions), acc)
             ELSE ParseDefinitions(Tail(definitions),
                      [tables |-> Append(acc.tables,
                                         [table_schema |-> "public",
                                          table_name |-> definition.name,
                                          table_type |-> "BASE TABLE"]),
                       columns |-> acc.columns \o DefinitionColumns(definition),
                       foreignKeys |-> << >>])

\* The value fetchSchemaViaRest returns for a document.
SchemaOfOpenApi(openApiSpec) == ParseDefinitions(openApiSpec.definitions, EmptySchema)

\* Lines 6-16 of the Schema route: the body is read, the two fields are
\* checked, fetchSchemaViaRest is called. The handlers share no state; the
\* model follows a request to this route on its own, or after a Query
\* request that was turned away for a missing field.
FetchReceive(req) ==
    /\ fetchPc = "idle"
    /\ \/ pc = "idle"
       \/ pc = "done" /\ response[1].status = 400
    /\ fetchRequest' = req
    /\ IF ~req.json
         THEN /\ fetchResponse' = Respond(500, [error |-> "Unexpected end of JSON input"])
              /\ fetchPc' = "done"
              /\ UNCHANGED fetchCalls
       ELSE IF req.isNull
         THEN /\ fetchResponse' = Respond(500, [error |->
                     "Cannot destructure property 'supabaseUrl' of '(intermediate value)' as it is null."])
              /\ fetchPc' = "done"
              /\ UNCHANGED fetchCalls
       ELSE IF ~req.supabaseUrl \/ ~req.supabaseAnonKey
         THEN /\ fetchResponse' = Respond(400, [error |-> "Missing supabaseUrl or supabaseAnonKey"])
              /\ fetchPc' = "done"
              /\ UNCHANGED fetchCalls
       ELSE /\ fetchCalls' = Append(fetchCalls, [supabaseUrl |-> req.supabaseUrl,
                                                 anonKey |-> req.supabaseAnonKey])
            /\ fetchResponse' = fetchResponse
            /\ fetchPc' = "fetching"
    /\ UNCHANGED << vsql, vres, pipelineVars, materializerVars,
                    parked, chatVars >>

\* fetchSchemaViaRest settles and the route answers.
FetchSettles(o) ==
    /\ fetchPc = "fetching"
    /\ fetchResponse' =
          IF o.rejects THEN Respond(500, [error |-> "fetch failed"])
          ELSE IF ~o.ok
            THEN Respond(500, [error |-> "Failed to fetch schema from REST endpoint"])
          ELSE Respond(200, [schema |-> SchemaOfOpenApi(o.spec)])
    /\ fetchPc' = "done"
    /\ UNCHANGED << vsql, vres, pipelineVars, materializerVars, fetchRequest,
                    fetchCalls,
                    parked, chatVars >>

Next ==
    \/ \E req \in Requests : Receive(req)
    \/ CreateAgent
    \/ ProviderSettles
    \/ AgentReturns
    \/ HandleResult
    \/ \E o \in RpcOutcomes : RpcSettles(o)
    \/ \E req \in FetchRequests : FetchReceive(req)
    \/ \E o \in FetchOutcomes : FetchSettles(o)

Spec == Init /\ [][Next]_vars

\* Every call of the provider settles (the request is abandoned after
\* maxDuration otherwise), so a loop that can take a step takes one.
SpecLive == Spec /\ WF_vars(ProviderSettles)

(***************************************************************************)
(* Two invocations of POST /api/query in flight at once. The handler and   *)
(* createQueryAgent keep all their state in locals (body, schemaFiles,     *)
(* agent, tools, result, steps, supabase, ...); route.ts and agent.ts      *)
(* declare only constants at module level. The variables of the pipeline   *)
(* are the locals of the invocation that is running; the locals of the     *)
(* other invocation are parked while it waits at an await.                 *)
(***************************************************************************)
\* The locals of the running invocation.
Frame ==
    [pc |-> pc, request |-> request, stepCount |-> stepCount, calls |-> calls,
     lastCalls |-> lastCalls, text |-> text, provided |-> provided,
     result |-> result, validated |-> validated, validation |-> validation,
     rpcQueries |-> rpcQueries, response |-> response, rpcResult |-> rpcResult,
     sandbox |-> sandbox, schema |-> schema, files |-> files]

\* The locals of an invocation that has not started.
NewFrame ==
    [pc |-> "idle", request |-> NoRequest, stepCount |-> 0, calls |-> << >>,
     lastCalls |-> 0, text |-> << >>, provided |-> << >>, result |-> << >>,
     validated |-> << >>, validation |-> << >>, rpcQueries |-> << >>,
     response |-> << >>, rpcResult |-> << >>, sandbox |-> << >>,
     schema |-> EmptySchema, files |-> << >>]

\* What a suspended invocation resumes with: its own locals, whatever the
\* invocation that ran meanwhile did to its own.   (a mutant keeps the tools
\* of createBashTool at module level, so that the sandbox is the one of the
\* invocation that ran last)
ResumeWithSharedSandbox(suspended, running) ==
    [suspended EXCEPT !.sandbox = running.sandbox]
Resume(suspended, running) == suspended

\* The event loop leaves the running invocation at an await and runs the
\* other one: a second request that arrives, or the suspended one.
Switch ==
    /\ LET f == Resume(IF parked = << >> THEN NewFrame ELSE parked[1], Frame)
       IN  /\ pc' = f.pc
           /\ request' = f.request
           /\ stepCount' = f.stepCount
           /\ calls' = f.calls
           /\ lastCalls' = f.lastCalls
           /\ text' = f.text
           /\ provided' = f.provided
           /\ result' = f.result
           /\ validated' = f.validated
           /\ validation' = f.validation
           /\ rpcQueries' = f.rpcQueries
           /\ response' = f.response
           /\ rpcResult' = f.rpcResult
           /\ sandbox' = f.sandbox
           /\ schema' = f.schema
           /\ files' = f.files
    /\ parked' = << Frame >>
    /\ UNCHANGED << vsql, vres, again, fetchVars, chatVars >>

\* The requests and the provider's turns of the two invocations: a complete
\* request and one without a question; a turn with tool calls, and two
\* answers.
ConcurrentRequests ==
    { r \in Requests : /\ r.json /\ ~r.isNull /\ r.credentials /\ r.schema
                        /\ r.supabaseUrl /\ r.llmProvider = "openai" }

ConcurrentAnswers ==
    { FenceSqlOpen \o <<"S", "E", "L", "E", "C", "T", " ", "1">> \o Fence,
      <<"S", "e", "e", ":", " ">> \o FenceSqlOpen \o <<"D", "R", "O", "P", " ", "x">>
          \o Fence }

ConcurrentNext ==
    \/ \E req \in ConcurrentRequests : Receive(req)
    \/ CreateAgent
    \/ \E turnText \in ConcurrentAnswers : ProviderTurn(0, turnText)
    \/ ProviderTurn(MaxCallsPerTurn, << >>)
    \/ AgentReturns
    \/ HandleResult
    \/ \E o \in RpcOutcomes : RpcSettles(o)
    \/ Switch

SpecConcurrent == Init /\ [][ConcurrentNext]_vars

(***************************************************************************)
(* The chat of QueryInterface (query-interface.tsx): the conversations,    *)
(* the input, and handleSubmit, whose call waits for the answer of         *)
(* /api/query while the user goes on using the component. A message is    *)
(* modelled by its role and content; the answer of the route by the two    *)
(* fields the content of the assistant message is made of.                 *)
(***************************************************************************)
\* The readings of Date.now() that make an id; every event that makes one
\* happens at a later millisecond than the one before.
MaxClock == 3

\* The submissions that are turned away.
MaxIgnored == 2

\* The values the user gives the input.
ChatInputs == { << >>, <<" ">>, <<"q", " ">> }

\* How the awaited fetch and response.json() settle: they throw, or they give
\* the body of the answer.
QueryReplies ==
    { [throws |-> TRUE, explanation |-> << >>, error |-> <<"d", "o", "w", "n">>],
      [throws |-> FALSE, explanation |-> <<"o", "k">>, error |-> << >>],
      [throws |-> FALSE, explanation |-> << >>, error |-> <<"n", "o">>],
      [throws |-> FALSE, explanation |-> << >>, error |-> << >>] }

NewConversationTitle ==
    <<"N", "e", "w", " ", "c", "o", "n", "v", "e", "r", "s", "a", "t", "i", "o", "n">>

\* input.slice(0, 40) + (input.length > 40 ? '...' : '')
Title(in) ==
    IF Len(in) > 40 THEN SubSeq(in, 1, 40) \o <<".", ".", ".">> ELSE in

\* data.explanation || (data.error ? 'Error: ' + data.error : 'Query executed'),
\* and err.message in the catch clause.
AssistantContent(o) ==
    IF o.throws THEN o.error
    ELSE IF o.explanation # << >> THEN o.explanation
    ELSE IF o.error # << >> THEN <<"E", "r", "r", "o", "r", ":", " ">> \o o.error
    ELSE <<"Q", "u", "e", "r", "y", " ", "e", "x", "e", "c", "u", "t", "e", "d">>

\* prev.map(c => c.id === conversationId
\*                  ? {...c, title: ..., messages: [...c.messages, userMessage]} : c)
AppendUserMessage(prev, conversationId, in) ==
    [i \in 1..Len(prev) |->
        IF prev[i].id = conversationId
        THEN [prev[i] EXCEPT
                 !.title = IF Len(prev[i].messages) = 0 THEN Title(in) ELSE @,
                 !.messages = Append(@, [role |-> "user", content |-> in])]
        ELSE prev[i]]

\* prev.map(c => c.id === conversationId
\*                  ? {...c, messages: [...c.messages, assistantMessage]} : c)
AppendAssistantMessage(prev, conversationId, content) ==
    [i \in 1..Len(prev) |->
        IF prev[i].id = conversationId
        THEN [prev[i] EXCEPT
                 !.messages = Append(@, [role |-> "assistant", content |-> content])]
        ELSE prev[i]]

\* The conversation the answer goes to: conversationId, the local that
\* handleSubmit set before the await.   (a mutant reads the active
\* conversation at the time of the answer)
ReplyTargetActive(conversationId, active) == active
ReplyTarget(conversationId, active) == conversationId

\* prev.filter(c => c.id !== id)
RECURSIVE WithoutConversation(_, _)
WithoutConversation(prev, id) ==
    IF prev = << >> THEN << >>
    ELSE IF Head(prev).id = id THEN WithoutConversation(Tail(prev), id)
    ELSE << Head(prev) >> \o WithoutConversation(Tail(prev), id)

ConversationIds == { conversations[i].id : i \in 1..Len(conversations) }

\* onChange={(e) => setInput(e.target.value)}
ChangeInput(v) ==
    /\ input # v
    /\ input' = v
    /\ UNCHANGED << vsql, vres, pipelineVars, materializerVars, fetchVars, parked,
                    conversations, activeConversationId, loading, pending, now,
                    ignored >>

createNewConversation ==
    /\ now < MaxClock
    /\ now' = now + 1
    /\ conversations' = << [id |-> now + 1, title |-> NewConversationTitle,
                            messages |-> << >>] >> \o conversations
    /\ activeConversationId' = now + 1
    /\ UNCHANGED << vsql, vres, pipelineVars, materializerVars, fetchVars, parked,
                    input, loading, pending, ignored >>

\* onClick={() => setActiveConversationId(conv.id)}
SelectConversation(id) ==
    /\ id \in ConversationIds
    /\ activeConversationId # id
    /\ activeConversationId' = id
    /\ UNCHANGED << vsql, vres, pipelineVars, materializerVars, fetchVars, parked,
                    conversations, input, loading, pending, now, ignored >>

deleteConversation(id) ==
    /\ id \in ConversationIds
    /\ LET remaining == WithoutConversation(conversations, id)
       IN  /\ conversations' = remaining
           /\ activeConversationId' =
                 IF activeConversationId = id
                 THEN (IF Len(remaining) > 0 THEN remaining[1].id ELSE 0)
                 ELSE activeConversationId
    /\ UNCHANGED << vsql, vres, pipelineVars, materializerVars, fetchVars, parked,
                    input, loading, pending, now, ignored >>

\* handleSubmit up to its await: the early return, the new conversation when
\* none is active, the user message, setInput('') and setLoading(true).
handleSubmit ==
    IF Trim(input) = << >> \/ loading
    THEN /\ ignored < MaxIgnored
         /\ ignored' = ignored + 1
         /\ UNCHANGED << vsql, vres, pipelineVars, materializerVars, fetchVars,
                         parked, conversations, activeConversationId, input,
                         loading, pending, now >>
    ELSE /\ now < MaxClock
         /\ now' = now + 1
         /\ LET conversationId == IF activeConversationId = 0 THEN now + 1
                                  ELSE activeConversationId
                withNew == IF activeConversationId = 0
                           THEN << [id |-> now + 1, title |-> Title(input),
                                    messages |-> << >>] >> \o conversations
                           ELSE conversations
            IN  /\ conversations' = AppendUserMessage(withNew, conversationId, input)
                /\ activeConversationId' = conversationId
                /\ pending' = << [conversationId |-> conversationId,
                                  question |-> input] >>
         /\ input' = << >>
         /\ loading' = TRUE
         /\ UNCHANGED << vsql, vres, pipelineVars, materializerVars, fetchVars,
                         parked, ignored >>

\* handleSubmit after its await: the assistant message of the try block or of
\* the catch clause, and setLoading(false) of the finally clause.
QuerySettles(o) ==
    /\ pending # << >>
    /\ conversations' =
          AppendAssistantMessage(conversations,
                                 ReplyTarget(pending[1].conversationId,
                                             activeConversationId),
                                 AssistantContent(o))
    /\ loading' = FALSE
    /\ pending' = << >>
    /\ UNCHANGED << vsql, vres, pipelineVars, materializerVars, fetchVars, parked,
                    activeConversationId, input, now, ignored >>

AnswerArrives == \E o \in QueryReplies : QuerySettles(o)

ChatNext ==
    \/ \E v \in ChatInputs : ChangeInput(v)
    \/ createNewConversation
    \/ \E id \in 1..MaxClock : SelectConversation(id)
    \/ \E id \in 1..MaxClock : deleteConversation(id)
    \/ handleSubmit
    \/ AnswerArrives

\* The awaited fetch settles: it resolves, or it rejects when the connection
\* fails or the route runs out of time.
SpecChat == Init /\ [][ChatNext]_vars /\ WF_vars(AnswerArrives)

(***************************************************************************)
(* The rules of the validator as the specification words them, stated on   *)
(* the positions of the text and not by the operations of the code.        *)
(***************************************************************************)
Called == vres # << >>
Outcome == vres[1]
Rejected == Called /\ ~Outcome.valid
RejectedWith(reason) == Rejected /\ "error" \in DOMAIN Outcome /\ Outcome.error = reason

\* The text begins with the word w.
BeginsWith(t, w) == Len(t) >= Len(w) /\ SubSeq(t, 1, Len(w)) = w

\* Rule "must start with SELECT or WITH".
RuleStart(t) == BeginsWith(t, SelectWord) \/ BeginsWith(t, WithWord)

\* w occurs in t as a whole word: neither neighbour is a letter, a digit or
\* an underscore.
OccursAsWholeWord(w, t) ==
    \E i \in 1..(Len(t) - Len(w) + 1) :
        /\ SubSeq(t, i, i + Len(w) - 1) = w
        /\ (i = 1 \/ ~IsWordChar(t[i - 1]))
        /\ (i + Len(w) > Len(t) \/ ~IsWordChar(t[i + Len(w)]))

KeywordsOccurring(t) ==
    {k \in DOMAIN dangerousKeywords : OccursAsWholeWord(dangerousKeywords[k].chars, t)}

\* Rule "no forbidden keyword as a whole word" is broken.
BreaksKeywordRule(t) == KeywordsOccurring(t) # {}

\* Position i of t is kept when the spans between the 1st and 2nd, the 3rd
\* and 4th, ... of the quote characters at the positions among are removed
\* together with their quotes.
KeptByParity(t, q, among, i) ==
    LET quotes == {j \in among : t[j] = q}
        before == Cardinality({j \in quotes : j < i})
        total  == Cardinality(quotes)
    IN  IF t[i] = q
        THEN before = total - 1 /\ total % 2 = 1
        ELSE before % 2 = 0 \/ before = total

\* The positions left once single-quoted and then double-quoted spans are removed.
KeptPositions(t) ==
    LET afterSingle == {i \in 1..Len(t) : KeptByParity(t, "'", 1..Len(t), i)}
    IN  {i \in afterSingle : KeptByParity(t, "\"", afterSingle, i)}

\* Rule "no semicolon once quoted spans are removed" is broken.
BreaksStatementRule(t) == \E i \in KeptPositions(t) : t[i] = ";"

\* Rule "no comment marker anywhere" is broken.
BreaksCommentRule(t) ==
    \E i \in 1..(Len(t) - 1) :
        \/ t[i] = "-" /\ t[i + 1] = "-"
        \/ t[i] = "/" /\ t[i + 1] = "*"

\* A lexer's view of the text: after i characters it is in code, inside a
\* single-quoted literal or inside a double-quoted identifier.
RECURSIVE LexState(_, _)
LexState(t, i) ==
    IF i = 0 THEN "code"
    ELSE LET p == LexState(t, i - 1)
         IN  CASE p = "code"   -> IF t[i] = "'" THEN "single"
                                  ELSE IF t[i] = "\"" THEN "double" ELSE "code"
               [] p = "single" -> IF t[i] = "'" THEN "code" ELSE "single"
               [] p = "double" -> IF t[i] = "\"" THEN "code" ELSE "double"

\* A semicolon outside every literal separates two statements.
IsMultiStatement(t) ==
    \E i \in 1..Len(t) :
        /\ t[i] = ";"
        /\ LexState(t, i - 1) = "code"
        /\ \E j \in 1..(i - 1) : t[j] \notin WhiteSpace \cup {";"}
        /\ \E j \in (i + 1)..Len(t) : t[j] \notin WhiteSpace \cup {";"}

\* The text has a semicolon, each one lies inside a single-quoted literal,
\* and every literal is closed.
OnlySemicolonInLiteral(t) ==
    /\ \E i \in 1..Len(t) : t[i] = ";"
    /\ \A i \in 1..Len(t) : t[i] = ";" => LexState(t, i - 1) = "single"
    /\ LexState(t, Len(t)) = "code"

KeywordErrors == {KeywordError(dangerousKeywords[k].name) : k \in DOMAIN dangerousKeywords}

(***************************************************************************)
(* C3: the validator is a sequential rule pipeline. Whenever an input      *)
(* breaks one or several rules, it is rejected with the reason of the      *)
(* earliest broken rule in the order start, keyword, statements, comments. *)
(***************************************************************************)
C3_EarliestRuleDecides ==
    Called =>
        LET t == Normalize(vsql)
        IN  /\ ~RuleStart(t) => RejectedWith(StartError)
            /\ RuleStart(t) /\ BreaksKeywordRule(t) =>
                   Rejected /\ Outcome.error \in KeywordErrors
            /\ RuleStart(t) /\ ~BreaksKeywordRule(t) /\ BreaksStatementRule(t) =>
                   RejectedWith(StatementsError)
            /\ RuleStart(t) /\ ~BreaksKeywordRule(t) /\ ~BreaksStatementRule(t)
                  /\ BreaksCommentRule(t) => RejectedWith(CommentError)

\* An input that breaks the last two rules and no other has been rejected.
C3_Witness ==
    /\ Called
    /\ RuleStart(Normalize(vsql))
    /\ ~BreaksKeywordRule(Normalize(vsql))
    /\ BreaksStatementRule(Normalize(vsql))
    /\ BreaksCommentRule(Normalize(vsql))
    /\ RejectedWith(StatementsError)

(***************************************************************************)
(* C4: the validator accepts exactly the inputs whose trimmed, upper-cased *)
(* text starts with SELECT or WITH, has none of the keywords as a whole    *)
(* word, has no semicolon once quoted spans are removed, and has neither   *)
(* -- nor /*.                                                              *)
(***************************************************************************)
C4_AcceptsExactlyReadOnly ==
    Called =>
        LET t == Normalize(vsql)
        IN  Outcome.valid <=>
                /\ RuleStart(t)
                /\ ~BreaksKeywordRule(t)
                /\ ~BreaksStatementRule(t)
                /\ ~BreaksCommentRule(t)

\* An accepted input in which a keyword's letters occur inside a longer word.
C4_Witness ==
    /\ Called
    /\ Outcome.valid
    /\ Includes(Normalize(vsql), <<"D", "R", "O", "P">>)

(***************************************************************************)
(* C5 as stated: every input beginning with a mutating keyword is rejected *)
(* with a reason naming that keyword.                                      *)
(***************************************************************************)
LeadingKeywords(t) ==
    {k \in DOMAIN dangerousKeywords :
        /\ BeginsWith(t, dangerousKeywords[k].chars)
        /\ \/ Len(t) = Len(dangerousKeywords[k].chars)
           \/ ~IsWordChar(t[Len(dangerousKeywords[k].chars) + 1])}

C5_Original ==
    Called =>
        \A k \in LeadingKeywords(Normalize(vsql)) :
            RejectedWith(KeywordError(dangerousKeywords[k].name))

(***************************************************************************)
(* C5 amended: every input beginning with a mutating keyword is rejected,  *)
(* and the reason is that of the first rule (the query must start with     *)
(* SELECT or WITH); the reason does not name the keyword.                  *)
(***************************************************************************)
C5_LeadingKeywordRejected ==
    Called /\ LeadingKeywords(Normalize(vsql)) # {} => RejectedWith(StartError)

\* DROP TABLE users; has been rejected by the first rule.
C5_Witness == vsql = ExampleDrop /\ RejectedWith(StartError)

(***************************************************************************)
(* C6 as stated: every multi-statement input whose separating semicolon    *)
(* lies outside string literals is rejected with the reason citing         *)
(* multiple statements, and an input whose only semicolon is inside a      *)
(* single-quoted literal is accepted.                                      *)
(***************************************************************************)
C6_Original ==
    Called =>
        /\ IsMultiStatement(vsql) => RejectedWith(StatementsError)
        /\ OnlySemicolonInLiteral(vsql) => Outcome.valid

(***************************************************************************)
(* C6 amended: an input that passes the start rule and the keyword rule is *)
(* rejected with the reason citing multiple statements whenever a          *)
(* semicolon is left after single-quoted and then double-quoted spans are  *)
(* removed; when all its semicolons fall inside removed spans and it has   *)
(* no comment marker, it is accepted.                                      *)
(***************************************************************************)
C6_SemicolonLeftRejected ==
    Called =>
        LET t == Normalize(vsql)
            passes == RuleStart(t) /\ ~BreaksKeywordRule(t)
        IN  /\ passes /\ BreaksStatementRule(t) => RejectedWith(StatementsError)
            /\ passes /\ ~BreaksStatementRule(t) /\ ~BreaksCommentRule(t)
                  /\ Includes(t, <<";">>) => Outcome = Valid

\* SELECT 'a;b' has been accepted.
C6_Witness == vsql = ExampleLiteral /\ Called /\ Outcome = Valid

(***************************************************************************)
(* C7 as stated: every input containing -- or /* is rejected with the      *)
(* reason citing comments.                                                 *)
(***************************************************************************)
C7_Original ==
    Called /\ BreaksCommentRule(vsql) => RejectedWith(CommentError)

(***************************************************************************)
(* C7 amended: every input containing -- or /* is rejected; the reason     *)
(* cites comments exactly when the input passes the start, keyword and     *)
(* statement rules, and is the reason of the earliest of those rules       *)
(* otherwise.                                                              *)
(***************************************************************************)
C7_CommentMarkerRejected ==
    Called /\ BreaksCommentRule(vsql) =>
        LET t == Normalize(vsql)
            passes == RuleStart(t) /\ ~BreaksKeywordRule(t) /\ ~BreaksStatementRule(t)
        IN  /\ Rejected
            /\ passes <=> Outcome.error = CommentError

\* A comment marker inside a quoted literal, after a valid SELECT prefix.
C7_Witness ==
    /\ \E i \in 1..Len(vsql) : vsql[i] = "/" /\ LexState(vsql, i - 1) = "single"
    /\ RuleStart(Normalize(vsql))
    /\ RejectedWith(CommentError)

(***************************************************************************)
(* C8: the result carries a reason if and only if valid is false; the      *)
(* query SELECT id, name FROM users LIMIT 10 yields valid = true and no    *)
(* reason.                                                                 *)
(***************************************************************************)
C8_ReasonIffInvalid ==
    Called =>
        /\ "error" \in DOMAIN Outcome <=> ~Outcome.valid
        /\ vsql = ExampleAccepted => Outcome.valid /\ DOMAIN Outcome = {"valid"}

\* The example query has been accepted.
C8_Witness == vsql = ExampleAccepted /\ Called /\ Outcome.valid
(***************************************************************************)
(* C1: execute_query is invoked only after validateSqlQuery has returned   *)
(* valid = true for the SQL extracted in the same request: whenever a      *)
(* query has been submitted, the validator was called on the extracted     *)
(* SQL, accepted it, the submitted text is the validated text, and that    *)
(* text breaks none of the validator's rules.                              *)
(***************************************************************************)
C1_RpcOnlyAfterValidation ==
    rpcQueries # << >> =>
        /\ result # << >>
        /\ validated = << result[1].sql >>
        /\ validation # << >>
        /\ validation[1].valid
        /\ rpcQueries = validated
        /\ LET t == Normalize(validated[1])
           IN  /\ RuleStart(t)
               /\ ~BreaksKeywordRule(t)
               /\ ~BreaksStatementRule(t)
               /\ ~BreaksCommentRule(t)

\* A query with a semicolon inside a literal has been submitted and answered.
C1_Witness ==
    /\ pc = "done"
    /\ Len(rpcQueries) = 1
    /\ Includes(rpcQueries[1], <<";">>)
    /\ response[1].body.success

(***************************************************************************)
(* C2: when the final answer of the provider contains no fenced SQL block, *)
(* the parsed sql is the empty string and the request is answered with     *)
(* success = false and the extraction-failure message, and neither the     *)
(* validator nor the execution bridge is invoked.                          *)
(***************************************************************************)
NoFencedSqlBlock(answer) ==
    ~ \E i, j \in 1..Len(answer) :
          /\ HasAt(answer, FenceSqlOpen, i)
          /\ j >= i + Len(FenceSqlOpen)
          /\ HasAt(answer, Fence, j)

C2_NoBlockIsExtractionFailure ==
    result # << >> /\ NoFencedSqlBlock(text) =>
        /\ result[1].sql = << >>
        /\ validated = << >>
        /\ validation = << >>
        /\ rpcQueries = << >>
        /\ pc # "executing"
        /\ pc = "done" =>
              /\ response[1].status = 200
              /\ response[1].body.success = FALSE
              /\ response[1].body.error = ExtractionError
              /\ "sql" \notin DOMAIN response[1].body

\* An answer with a fence that is not tagged sql has been answered with the
\* extraction failure.
C2_Witness ==
    /\ pc = "done"
    /\ result # << >>
    /\ NoFencedSqlBlock(text)
    /\ Includes(text, Fence)
    /\ response[1].body.error = ExtractionError

(***************************************************************************)
(* C9: the step log returned by the agent never holds more than            *)
(* StepBudget (10) entries, however many tool calls the provider issues,   *)
(* several in one turn included.                                           *)
(***************************************************************************)
C9_StepLogWithinBudget ==
    result # << >> => Len(result[1].steps) <= StepBudget

(***************************************************************************)
(* C10: the agent loop always terminates. It goes on only after a turn     *)
(* with tool calls and while fewer than 10 steps are consumed, so it ends  *)
(* with the first turn that has no tool call or with the 10th step,        *)
(* whichever comes first; the text of the provider's latest turn is then   *)
(* the final answer, and it is what the parser is given.                   *)
(***************************************************************************)
LoopEnded == pc = "generated" \/ result # << >>

Answered == pc = "done" /\ response # << >>
Body == response[1].body

\* The kind of a response: its status, its success flag and its fields.
Kind(r) ==
    [status |-> r.status,
     success |-> IF "success" \in DOMAIN r.body THEN << r.body.success >> ELSE << >>,
     fields |-> DOMAIN r.body]

SoftSuccessKind ==
    [status |-> 200, success |-> << TRUE >>,
     fields |-> {"success", "explanation", "sql", "steps", "data", "note"}]

FullSuccessKind ==
    [status |-> 200, success |-> << TRUE >>,
     fields |-> {"success", "explanation", "sql", "steps", "data"}]

\* How the submitted query ended.
RpcThrew == rpcResult # << >> /\ rpcResult[1].throws
DatabaseError == rpcResult # << >> /\ ~rpcResult[1].throws /\ rpcResult[1].error # ""
Executed == rpcResult # << >> /\ ~rpcResult[1].throws /\ rpcResult[1].error = ""

(***************************************************************************)
(* C11: the three execution outcomes are never conflated. A call that      *)
(* throws gives a soft success with data = null and a note; an error       *)
(* reported by the database gives an error outcome of another kind, with   *)
(* the message of the database and the generated SQL; success gives the    *)
(* rows. No two of the outcomes give the same kind of response.            *)
(***************************************************************************)
C11_OutcomesNeverConflated ==
    Answered =>
        /\ RpcThrew => Kind(response[1]) = SoftSuccessKind /\ Body.data = "null"
        /\ DatabaseError =>
              /\ Kind(response[1]) \notin {SoftSuccessKind, FullSuccessKind}
              /\ Body.sql = result[1].sql
        /\ Executed => Kind(response[1]) = FullSuccessKind /\ Body.data = rpcResult[1].data

(***************************************************************************)
(* C12: only an unexpected failure is answered with status 500. Once the   *)
(* agent has returned its result, whatever follows (extraction failure,    *)
(* validation failure, a failure while the database client is constructed  *)
(* or called, an error of the database) is answered with status 200 and a  *)
(* structured payload.                                                     *)
(***************************************************************************)
C12_DomainFailuresAre200 ==
    (Answered /\ result # << >>) =>
        /\ response[1].status = 200
        /\ "success" \in DOMAIN Body

(***************************************************************************)
(* C13: every domain-level response (status 200) carries the explanation   *)
(* and the step log of the agent, and the generated SQL unchanged whenever *)
(* SQL was extracted; on a validation failure the error is the reason of   *)
(* the validator and the rejected SQL is included.                         *)
(***************************************************************************)
Carries(field, value) == field \in DOMAIN Body /\ Body[field] = value

C13_ResponseCarriesAgentResult ==
    (Answered /\ response[1].status = 200) =>
        /\ result # << >>
        /\ Carries("explanation", result[1].explanation)
        /\ Carries("steps", result[1].steps)
        /\ result[1].sql # << >> => Carries("sql", result[1].sql)
        /\ (validation # << >> /\ ~validation[1].valid) =>
              /\ Carries("error", validation[1].error)
              /\ Carries("sql", validated[Len(validated)])
              /\ Carries("success", FALSE)

\* A query has been rejected by the validator after the agent explained it
\* and logged steps.
C13_Witness ==
    /\ Answered
    /\ response[1].status = 200
    /\ validation # << >>
    /\ ~validation[1].valid
    /\ result[1].explanation # << >>
    /\ result[1].steps # << >>
    /\ Body.sql = result[1].sql

(***************************************************************************)
(* C14: a request whose body lacks a required field (Query: question,      *)
(* credentials or schema; Schema fetch: supabaseUrl or supabaseAnonKey) is *)
(* answered with status 400 before any collaborator is invoked: no         *)
(* schemaToFiles, no agent call, no fetchSchemaViaRest and no rpc call     *)
(* happens for it.                                                         *)
(***************************************************************************)
\* The body of the request that was received is an object (it parsed, and
\* not to null) without one of the required fields.
QueryLacksField ==
    /\ pc # "idle"
    /\ request.json /\ ~request.isNull
    /\ ~request.question \/ ~request.credentials \/ ~request.schema

FetchLacksField ==
    /\ fetchPc # "idle"
    /\ fetchRequest.json /\ ~fetchRequest.isNull
    /\ ~fetchRequest.supabaseUrl \/ ~fetchRequest.supabaseAnonKey

\* The Query route has called none of schemaToFiles, the agent, the
\* validator and the rpc; the Schema route has not called
\* fetchSchemaViaRest.
QueryInvokedNothing ==
    /\ files = << >>
    /\ stepCount = 0
    /\ result = << >>
    /\ validated = << >>
    /\ rpcQueries = << >>
    /\ rpcResult = << >>

FetchInvokedNothing == fetchCalls = << >>

Materialized == files # << >>
Documents == files[1]

TableNames == { schema.tables[i].table_name : i \in 1..Len(schema.tables) }

\* The columns and the foreign keys of the schema, as sets.
ColumnsOf(name) ==
    { schema.columns[i] : i \in { j \in 1..Len(schema.columns) :
                                    schema.columns[j].table_name = name } }

Orphans ==
    { schema.columns[i] : i \in { j \in 1..Len(schema.columns) :
                                    schema.columns[j].table_name \notin TableNames } }

\* The lines of a document from the n-th on.
LinesFrom(doc, n) == { doc[i] : i \in n..Len(doc) }

\* A document holds the lines ls one after the other, beginning at line n.
HoldsAt(doc, n, ls) ==
    /\ Len(doc) >= n + Len(ls) - 1
    /\ \A i \in 1..Len(ls) : doc[n + i - 1] = ls[i]

C16_EveryTableHasDocument ==
    Materialized =>
        \A i \in 1..Len(schema.tables) :
            LET table == schema.tables[i]
                path == "schema/tables/" \o table.table_name \o ".md"
            IN  /\ path \in DOMAIN Documents
                /\ HoldsAt(Documents[path], 6,
                           << "## Columns", "",
                              "| Column | Type | Nullable | Default |",
                              "|--------|------|----------|--------|" >>)
                /\ ColumnsOf(table.table_name) = {} =>
                      /\ \A k \in 1..Len(schema.columns) :
                            ColumnRow(schema.columns[k])
                                \notin LinesFrom(Documents[path], 10)
                      /\ Len(Documents[path]) > 9 => Documents[path][10] = ""
                /\ "schema/overview.md" \in DOMAIN Documents
                /\ HoldsAt(Documents["schema/overview.md"], 4 + i,
                           << "- " \o table.table_name \o " (" \o table.table_type \o ")" >>)

\* A schema with a table that has a column and a table that has none (while
\* there are columns of other tables) has been materialized.
C16_Witness ==
    /\ Materialized
    /\ Len(schema.tables) = 2
    /\ ColumnsOf(schema.tables[1].table_name) # {}
    /\ ColumnsOf(schema.tables[2].table_name) = {}
    /\ Len(Documents[TablePath(schema.tables[2].table_name)]) = 9

(***************************************************************************)
(* C17: the relationships document is in the files if and only if the      *)
(* schema has a foreign key; it then lists every foreign key of the        *)
(* schema once, in the order of the input, whether or not the owning table *)
(* is a table of the schema.                                               *)
(***************************************************************************)
C17_RelationshipsListEveryKey ==
    Materialized =>
        /\ ("schema/relationships.md" \in DOMAIN Documents) <=> (Len(schema.foreignKeys) > 0)
        /\ Len(schema.foreignKeys) > 0 =>
              LET doc == Documents["schema/relationships.md"]
              IN  /\ Len(doc) = 4 + Len(schema.foreignKeys)
                  /\ HoldsAt(doc, 1, << "# Table Relationships", "",
                                        "## Foreign Key Relationships", "" >>)
                  /\ \A i \in 1..Len(schema.foreignKeys) :
                        LET fk == schema.foreignKeys[i]
                        IN  doc[4 + i] =
                              "- " \o fk.table_name \o "." \o fk.column_name \o " " \o
                              Arrow \o " " \o fk.foreign_table_name \o "." \o
                              fk.foreign_column_name

\* A schema whose first foreign key belongs to a table that is not in the
\* schema, followed by another foreign key, has been materialized.
C17_Witness ==
    /\ Materialized
    /\ Len(schema.foreignKeys) = 2
    /\ schema.foreignKeys[1].table_name \notin TableNames
    /\ schema.foreignKeys[1] # schema.foreignKeys[2]
    /\ Len(Documents["schema/relationships.md"]) = 6

(***************************************************************************)
(* C18: schemaToFiles tolerates dangling references: it does not fail when *)
(* the table_name of a column or an endpoint of a foreign key matches no   *)
(* table, and a column whose table is not in the schema is grouped under   *)
(* the table name it states in the documents produced.                     *)
(***************************************************************************)
\* The column is listed under the name of its table: as a row of the
\* document of that table, or as an entry after the heading of that table
\* in the summary.
GroupedUnderItsTable(c) ==
    \/ /\ TablePath(c.table_name) \in DOMAIN Documents
       /\ ColumnRow(c) \in LinesFrom(Documents[TablePath(c.table_name)], 10)
    \/ \E i \in 1..Len(Documents["schema/summary.md"]) :
          /\ Documents["schema/summary.md"][i] = "### " \o c.table_name
          /\ ("- " \o c.column_name \o " (" \o c.data_type \o ")")
                \in LinesFrom(Documents["schema/summary.md"], i + 1)

C18_OrphansGrouped ==
    Materialized =>
        /\ "schema/summary.md" \in DOMAIN Documents
        /\ \A c \in Orphans : GroupedUnderItsTable(c)

(***************************************************************************)
(* The fields of the parsed answer as the specification words them, stated *)
(* on the positions of the raw answer.                                     *)
(***************************************************************************)
Parsed == result # << >>
RawAnswer == text

\* The places where p occurs in a.
Occurrences(a, p) == { i \in 1..Len(a) : HasAt(a, p, i) }

Least(S) == CHOOSE i \in S : \A j \in S : i <= j

\* A fenced block tagged as SQL: an opening fence with the tag sql and a line
\* break, and a closing fence after it.
SqlBlocks(a) ==
    { b \in Occurrences(a, FenceSqlOpen) \X Occurrences(a, Fence) :
        b[2] >= b[1] + Len(FenceSqlOpen) }

\* The contents of the first such block.
FirstSqlBlockContents(a) ==
    LET open == Least({ b[1] : b \in SqlBlocks(a) })
        close == Least({ b[2] : b \in { c \in SqlBlocks(a) : c[1] = open } })
    IN  SubSeq(a, open + Len(FenceSqlOpen), close - 1)

Blank(s) == \A k \in 1..Len(s) : s[k] \in WhiteSpace

\* t is s without the white space at its two ends.
IsTrimOf(t, s) ==
    IF t = << >> THEN Blank(s)
    ELSE /\ t[1] \notin WhiteSpace
         /\ t[Len(t)] \notin WhiteSpace
         /\ \E lead \in 0..(Len(s) - Len(t)) :
               /\ SubSeq(s, lead + 1, lead + Len(t)) = t
               /\ Blank(SubSeq(s, 1, lead))
               /\ Blank(SubSeq(s, lead + Len(t) + 1, Len(s)))

(***************************************************************************)
(* C19 as stated: the parsed SQL is the trimmed contents of the first      *)
(* fenced block tagged as SQL whenever there is such a block, and it is    *)
(* the empty string exactly when there is none.                            *)
(***************************************************************************)
C19_Original ==
    Parsed =>
        /\ SqlBlocks(RawAnswer) # {} =>
              IsTrimOf(result[1].sql, FirstSqlBlockContents(RawAnswer))
        /\ (result[1].sql = << >>) <=> (SqlBlocks(RawAnswer) = {})

(***************************************************************************)
(* C19, amended: the parsed SQL is the trimmed contents of the first       *)
(* fenced block tagged as SQL whenever there is such a block, and the      *)
(* empty string when there is none; it is empty exactly when there is no   *)
(* such block or the first one holds nothing but white space.              *)
(***************************************************************************)
C19_SqlIsFirstBlockTrimmed ==
    Parsed =>
        /\ SqlBlocks(RawAnswer) # {} =>
              IsTrimOf(result[1].sql, FirstSqlBlockContents(RawAnswer))
        /\ (result[1].sql = << >>) <=>
              \/ SqlBlocks(RawAnswer) = {}
              \/ Blank(FirstSqlBlockContents(RawAnswer))

\* An answer with two blocks tagged as SQL, the first of which ends with a
\* line break, has been parsed.
C19_Witness ==
    /\ Parsed
    /\ Cardinality(Occurrences(RawAnswer, FenceSqlOpen)) = 2
    /\ result[1].sql # << >>
    /\ result[1].sql # FirstSqlBlockContents(RawAnswer)

(***************************************************************************)
(* C20 as stated: the parsed explanation is the text between the           *)
(* Explanation marker and the first SQL Query marker after it (or the end  *)
(* of the text when there is none); when the Explanation marker is absent, *)
(* it is the text that precedes the first fenced block.                    *)
(***************************************************************************)
HasExplanationMarker(a) == Occurrences(a, ExplanationMarker) # {}

\* The text after the first Explanation marker, up to the first SQL Query
\* marker that follows it or to the end.
AfterExplanationMarker(a) ==
    LET from == Least(Occurrences(a, ExplanationMarker)) + Len(ExplanationMarker)
        stops == { k \in Occurrences(a, SqlQueryMarker) : k >= from }
    IN  SubSeq(a, from, IF stops = {} THEN Len(a) ELSE Least(stops) - 1)

\* The text before the first fence.
BeforeFirstBlock(a) == SubSeq(a, 1, Least(Occurrences(a, Fence)) - 1)

C20_Original ==
    Parsed =>
        /\ HasExplanationMarker(RawAnswer) =>
              result[1].explanation = AfterExplanationMarker(RawAnswer)
        /\ (~HasExplanationMarker(RawAnswer) /\ Occurrences(RawAnswer, Fence) # {}) =>
              result[1].explanation = BeforeFirstBlock(RawAnswer)

(***************************************************************************)
(* C20, amended: the parsed explanation is the text between the            *)
(* Explanation marker and the first SQL Query marker after it (or the end  *)
(* of the text), without the white space at its two ends; when the         *)
(* Explanation marker is absent, it is the text that precedes the first    *)
(* fenced block, without the white space at its two ends.                  *)
(***************************************************************************)
C20_ExplanationIsTrimmedSpan ==
    Parsed =>
        /\ HasExplanationMarker(RawAnswer) =>
              IsTrimOf(result[1].explanation, AfterExplanationMarker(RawAnswer))
        /\ (~HasExplanationMarker(RawAnswer) /\ Occurrences(RawAnswer, Fence) # {}) =>
              IsTrimOf(result[1].explanation, BeforeFirstBlock(RawAnswer))

\* An answer with both markers and a block after them has been parsed, and
\* the explanation is shorter than the text between the markers.
C20_Witness ==
    /\ Parsed
    /\ HasExplanationMarker(RawAnswer)
    /\ Occurrences(RawAnswer, SqlQueryMarker) # {}
    /\ SqlBlocks(RawAnswer) # {}
    /\ result[1].explanation # << >>
    /\ Len(result[1].explanation) < Len(AfterExplanationMarker(RawAnswer))

(***************************************************************************)
(* C21: a query that begins with SELECT or WITH is rejected by the keyword *)
(* rule if and only if one of the 18 keywords occurs in it as a whole      *)
(* word, in any case of the letters (letters, digits and the underscore    *)
(* are the characters of a word), wherever the occurrence is, inside a     *)
(* quoted literal included; the reason names a keyword that occurs in the  *)
(* input.                                                                  *)
(***************************************************************************)
\* The keywords that occur in the input as whole words, whatever the case.
KeywordsIn(sql) == KeywordsOccurring(ToUpperCase(sql))

NamedKeywords ==
    { k \in DOMAIN dangerousKeywords :
        RejectedWith(KeywordError(dangerousKeywords[k].name)) }

C21_KeywordRuleIffWholeWord ==
    (Called /\ RuleStart(Normalize(vsql))) =>
        /\ (Rejected /\ Outcome.error \in KeywordErrors) <=> (KeywordsIn(vsql) # {})
        /\ NamedKeywords \subseteq KeywordsIn(vsql)

\* The query with the keyword Drop inside a literal has been rejected, and
\* the reason names DROP.
C21_Witness ==
    /\ Called
    /\ vsql = ExampleKeywordInLiteral
    /\ RuleStart(Normalize(vsql))
    /\ LexState(vsql, 9) = "single"
    /\ RejectedWith(KeywordError("DROP"))

(***************************************************************************)
(* C26: a query that validateSqlQuery accepts has no semicolon at its end  *)
(* once trimmed, so the removal of trailing semicolons before the          *)
(* submission never changes the text of a query that reaches it.           *)
(***************************************************************************)
EndsWithSemicolon(s) == s # << >> /\ s[Len(s)] = ";"

C26_AcceptedHasNoTrailingSemicolon ==
    (Called /\ Outcome.valid) =>
        /\ ~EndsWithSemicolon(Trim(vsql))
        /\ CleanSql(vsql) = Trim(vsql)

\* A query with a semicolon, all of them inside a literal, has been
\* accepted.
C26_Witness ==
    /\ Called
    /\ Outcome.valid
    /\ \E i \in 1..Len(vsql) : vsql[i] = ";"

(***************************************************************************)
(* C27: when an input that begins with SELECT or WITH holds several        *)
(* forbidden keywords as whole words, the reason names the one that comes  *)
(* first in the list of keywords, wherever the keywords are in the text.   *)
(***************************************************************************)
C27_FirstInListIsNamed ==
    (Called /\ RuleStart(Normalize(vsql)) /\ Cardinality(KeywordsIn(vsql)) >= 2) =>
        LET first == CHOOSE k \in KeywordsIn(vsql) : \A h \in KeywordsIn(vsql) : k <= h
        IN  /\ RejectedWith(KeywordError(dangerousKeywords[first].name))
            /\ NamedKeywords = {first}

\* SET comes before DROP in the text and after it in the list: DROP has
\* been named.
C27_Witness ==
    /\ Called
    /\ vsql = ExampleTwoKeywords
    /\ RejectedWith(KeywordError("DROP"))

(***************************************************************************)
(* C22: the text submitted to execute_query is the extracted SQL in its    *)
(* own casing (not the upper-cased text of the validator), trimmed and     *)
(* without its trailing semicolons; the sql field of the response is the   *)
(* extracted SQL itself.                                                   *)
(***************************************************************************)
Submitted == rpcQueries[Len(rpcQueries)]

Semicolons(n) == [i \in 1..n |-> ";"]

\* q is s trimmed and without the semicolons at its end.
IsCleaned(q, s) ==
    /\ ~EndsWithSemicolon(q)
    /\ \E n \in 0..Len(s) : IsTrimOf(q \o Semicolons(n), s)

C22_SubmittedTextIsExtractedSql ==
    /\ rpcQueries # << >> =>
          /\ Parsed
          /\ IsCleaned(Submitted, result[1].sql)
          /\ IsTrimOf(result[1].sql, FirstSqlBlockContents(RawAnswer))
    /\ (Answered /\ "sql" \in DOMAIN Body) =>
          /\ Body.sql = result[1].sql
          /\ IsTrimOf(Body.sql, FirstSqlBlockContents(RawAnswer))

\* A query with lower-case letters has been submitted and answered.
C22_Witness ==
    /\ Answered
    /\ rpcQueries # << >>
    /\ Submitted # ToUpperCase(Submitted)
    /\ Body.sql = result[1].sql

(***************************************************************************)
(* C25: every response with success = true carries a sql that is not       *)
(* empty and for which validateSqlQuery returned valid = true in that      *)
(* request; no response with success = true is produced when the           *)
(* extraction or the validation failed.                                    *)
(***************************************************************************)
Succeeded == Answered /\ "success" \in DOMAIN Body /\ Body.success

C25_SuccessOnlyForValidatedSql ==
    /\ Succeeded =>
          /\ "sql" \in DOMAIN Body
          /\ Body.sql # << >>
          /\ validated = << Body.sql >>
          /\ validation # << >>
          /\ validation[1].valid
          /\ rpcResult # << >>
    /\ (Answered /\ Parsed /\ result[1].sql = << >>) => ~Succeeded
    /\ (Answered /\ validation # << >> /\ ~validation[1].valid) => ~Succeeded

\* The rpc call threw for a validated query, and the response reports
\* success.
C25_Witness ==
    /\ Succeeded
    /\ RpcThrew
    /\ validation[1].valid
    /\ Body.sql # << >>

(***************************************************************************)
(* The documents the provider's tools work on.                             *)
(***************************************************************************)
\* The tools have been created for the request.
ToolsCreated == sandbox # << >>

\* C24: the agent exposes only read-only capabilities over the document
\* set: after any sequence of tool invocations during the loop, the
\* documents the provider observes are the ones materialized for the
\* request. The tools handed to generateText include writeFile (and a shell),
\* and a writeFile call of the provider adds schema/notes.md.
C24_DocumentSetUnchanged == ToolsCreated => sandbox = files

(***************************************************************************)
(* Two requests in flight.                                                 *)
(***************************************************************************)
\* The invocations of the handler: the running one and the suspended one.
Invocations == {Frame} \cup (IF parked = << >> THEN {} ELSE {parked[1]})

\* Everything an invocation holds follows from its own request, its own
\* provider turns and its own database reply: its documents come from its
\* schema, its sandbox from its documents and its tool calls, its step log
\* and parsed answer from its provider's turns, its one query from its own
\* sql, and its response from its own result and rpc reply.
OwnInputsOnly(f) ==
    /\ f.files # << >> => f.files[1] = schemaToFiles(f.schema)
    /\ f.sandbox # << >> =>
          /\ f.files # << >>
          /\ f.sandbox[1] = ExecuteTools(f.files[1], f.calls)
    /\ Len(f.calls) =
          MaxCallsPerTurn *
             (IF f.stepCount > 0 /\ f.lastCalls = 0 THEN f.stepCount - 1
              ELSE f.stepCount)
    /\ f.stepCount > 0 => f.text = f.provided
    /\ f.result # << >> =>
          f.result[1] = [explanation |-> ParseExplanation(f.text),
                         sql |-> ParseSql(f.text),
                         steps |-> ExtractSteps(f.calls)]
    /\ f.rpcQueries # << >> =>
          /\ f.result # << >>
          /\ f.rpcQueries = << CleanSql(f.result[1].sql) >>
    /\ f.validated # << >> =>
          /\ f.result # << >>
          /\ f.validated = << f.result[1].sql >>
    /\ f.response # << >> =>
          LET body == f.response[1].body
          IN  /\ f.response[1].status = 400 <=> MissingFields(f.request)
              /\ "steps" \in DOMAIN body =>
                    /\ f.result # << >>
                    /\ body.steps = f.result[1].steps
                    /\ body.explanation = f.result[1].explanation
              /\ "sql" \in DOMAIN body => body.sql = f.result[1].sql
              /\ "data" \in DOMAIN body =>
                    /\ f.rpcResult # << >>
                    /\ body.data \in {"null", f.rpcResult[1].data}
                    /\ body.data = "rows" <=>
                          ~f.rpcResult[1].throws /\ f.rpcResult[1].error = ""
    /\ f.rpcResult # << >> => f.response # << >>

\* C23: concurrent Query requests do not interfere: under every
\* interleaving of two requests, each one has its own document set, tools,
\* step log and database query, and the response to each depends only on
\* its own input and its own provider and database replies.
C23_RequestsDoNotInterfere == \A f \in Invocations : OwnInputsOnly(f)

\* One request has been answered with the rows of its query and without
\* any tool call, while the other one, suspended in its loop, has made tool
\* calls that wrote to its own sandbox.
C23_Witness ==
    /\ parked # << >>
    /\ pc = "done"
    /\ response[1].status = 200
    /\ "data" \in DOMAIN response[1].body
    /\ response[1].body.data = "rows"
    /\ response[1].body.steps = << >>
    /\ sandbox = files
    /\ parked[1].pc = "generating"
    /\ parked[1].sandbox # parked[1].files
    /\ parked[1].calls # calls

(***************************************************************************)
(* The chat: submissions and their answers.                                *)
(***************************************************************************)
\* The conversation with this id, as a set (empty once it is deleted).
ConversationsWithId(convs, id) ==
    { i \in 1..Len(convs) : convs[i].id = id }

\* In every conversation a user message is followed by one assistant
\* message, but for the submission in flight, whose user message is the last
\* message of the conversation it was submitted in; loading says that a
\* submission is in flight.
AnswersFollowQuestions ==
    /\ loading <=> pending # << >>
    /\ \A i \in 1..Len(conversations) :
          LET m == conversations[i].messages
          IN  /\ \A k \in 1..Len(m) :
                    m[k].role = IF k % 2 = 1 THEN "user" ELSE "assistant"
              /\ Len(m) % 2 = 1 <=>
                    /\ pending # << >>
                    /\ pending[1].conversationId = conversations[i].id

\* A submission while loading or with a blank input changes nothing, and
\* only such a submission is turned away.
IgnoredWhenBusyOrBlank ==
    /\ (loading \/ Trim(input) = << >>) =>
          ~(pending' # pending /\ pending' # << >>)
    /\ ignored' # ignored =>
          /\ loading \/ Trim(input) = << >>
          /\ UNCHANGED << conversations, activeConversationId, input, loading,
                          pending >>

\* An accepted submission appends the user message to the conversation it
\* is submitted in (a new one when none is active), and to no other.
AcceptedAppendsQuestion ==
    (pending = << >> /\ pending' # << >>) =>
        LET c == pending'[1].conversationId
        IN  /\ loading'
            /\ c = IF activeConversationId = 0 THEN now' ELSE activeConversationId
            /\ \E i \in ConversationsWithId(conversations', c) :
                  LET m == conversations'[i].messages
                  IN  /\ m[Len(m)] = [role |-> "user", content |-> input]
                      /\ \A j \in ConversationsWithId(conversations, c) :
                            SubSeq(m, 1, Len(m) - 1) = conversations[j].messages
            /\ \A j \in 1..Len(conversations) :
                  conversations[j].id # c =>
                      \E i \in 1..Len(conversations') :
                          conversations'[i] = conversations[j]

\* The answer appends one assistant message to the conversation of the
\* submission, whichever conversation is active, and nothing when that
\* conversation is gone; loading is reset.
AnswerAppendsReply ==
    (pending # << >> /\ pending' = << >>) =>
        LET c == pending[1].conversationId
        IN  /\ ~loading'
            /\ Len(conversations') = Len(conversations)
            /\ \A i \in 1..Len(conversations) :
                  IF conversations[i].id = c
                  THEN /\ conversations'[i].id = c
                       /\ conversations'[i].title = conversations[i].title
                       /\ \E o \in QueryReplies :
                             conversations'[i].messages =
                                 Append(conversations[i].messages,
                                        [role |-> "assistant",
                                         content |-> AssistantContent(o)])
                  ELSE conversations'[i] = conversations[i]

\* C28: a submission is ignored while a request is in flight or the input
\* is blank; every accepted submission appends the user message and then
\* exactly one assistant message to the conversation it was submitted in,
\* even if the active conversation changes meanwhile, and nothing if that
\* conversation was deleted; loading is always reset to false afterwards.
C28_SubmissionsAreAnsweredInPlace ==
    /\ []AnswersFollowQuestions
    /\ [][IgnoredWhenBusyOrBlank /\ AcceptedAppendsQuestion /\ AnswerAppendsReply]_vars
    /\ (loading ~> ~loading)

\* The answer of a submission has arrived in a conversation that is not
\* the active one any more.
C28_Witness ==
    /\ ~loading
    /\ \E i \in 1..Len(conversations) :
          /\ conversations[i].id # activeConversationId
          /\ Len(conversations[i].messages) = 2
          /\ conversations[i].messages[2].role = "assistant"
====
